---------------------------- MODULE Spec2Model ----------------------------
(***************************************************************************)
(* A model of the local semantic retrieval and diagram-generation engine   *)
(* of projectOverview (rag.js: buildRagIndex, saveIndex, loadIndex,        *)
(* retrieveContext, generateDiagramDescription and their helpers).         *)
(*                                                                         *)
(* Text is a sequence of atoms.  An atom is a string that stands for one   *)
(* character (a blank, a newline, a backtick, a letter), for a literal    *)
(* piece of a template                                                     *)
(* ("participant "), or for a run of non-blank characters whose length is  *)
(* given by RunLen ("R130" is 130 characters).  The fence marker is always *)
(* three "BQ" atoms,      and blank characters are always atoms of their    *)
(* own.                                                                    *)
(*                                                                         *)
(* A similarity score dot / (sqrt(normA) * sqrt(normB) + 1e-9) is kept     *)
(* exactly, as the pair [dot, mag] with mag = sqrt(normA) * sqrt(normB):   *)
(* the vectors of the model have integer components and integer lengths,   *)
(* for which every intermediate value of cosineSimilarity is exact in      *)
(* double precision and the order of two scores is decided by ScoreCmp.    *)
(***************************************************************************)
EXTENDS Integers, Sequences, FiniteSets, TLC

VARIABLES
    transformersPromise,        \* part_001:7   let transformersPromise
    embeddingPipelinePromise,   \* part_001:8   let embeddingPipelinePromise
    generationPipelinePromise,  \* part_001:9   let generationPipelinePromise
    genPc,          \* position of the generateDiagramDescription call
    genArgs,        \* its arguments {question, contextChunks, features}
    genCall,        \* the promise returned by generator(prompt, options)
    genFailed,      \* history: the provider failed during the current call
    genOutcome,     \* what the call gave its caller
    rIndex,         \* the index handed to the ranking of retrieveContext
    rQuery,         \* the question's vector
    rTopK,          \* topK
    rResult,        \* the ranking returned
    localStorageItems,  \* localStorage: key -> stored payload
    ragIndex,       \* app.js:29, the index the caller holds (or none)
    ragPc,          \* position of the running buildRagIndex / retrieveContext call
    ragArgs,        \* the arguments of the running or last call
    ragLocals,      \* its locals (chunks, vectors, loop position) and history
    ragOutcome,     \* what the last completed call gave its caller
    lastAnalysis,   \* app.js:23
    submitButtonDisabled,   \* app.js:18, submitButton.disabled
    pdfButtonDisabled,      \* app.js:19, pdfButton.disabled
    appPc,          \* position of the running submit handler (app.js:31-70)
    pdfPc,          \* position of the running PDF click handler (app.js:72-87)
    submitLog,      \* history: how the last finished submit handler went
    ensureLog,      \* history: how the last ensureRagIndex call got its index
    inspFiles,      \* analyzer.js:150, the files handed to inspectCodeFiles
    work,           \* analyzer.js:161, the shared work queue
    workers,        \* analyzer.js:166, each worker's position and file
    classDetails,   \* analyzer.js:162
    totalClasses,   \* analyzer.js:163
    fetchLog,       \* history: the paths fetched, in the order the fetches started
    inspOutcome,    \* what inspectCodeFiles gave its caller
    pipeCallers,    \* concurrent callers of getEmbeddingPipeline / getGenerationPipeline
    pipePromises,   \* the promises that pipeline(...) has returned, in order
    pipeRef,        \* which of them each module variable (part_001:8-9) refers to
    pipeCalls       \* history: the number of provider calls started

genVars == <<genPc, genArgs, genCall, genFailed, genOutcome>>
provVars == <<transformersPromise, embeddingPipelinePromise, generationPipelinePromise>>
rankVars == <<rIndex, rQuery, rTopK, rResult>>
ragVars == <<localStorageItems, ragIndex, ragPc, ragArgs, ragLocals, ragOutcome>>
appVars == <<lastAnalysis, submitButtonDisabled, pdfButtonDisabled, appPc, pdfPc,
             submitLog, ensureLog>>
inspVars == <<inspFiles, work, workers, classDetails, totalClasses, fetchLog, inspOutcome>>
pipeVars == <<pipeCallers, pipePromises, pipeRef, pipeCalls>>
extVars == <<appVars, inspVars, pipeVars>>
vars == <<provVars, genVars, rankVars, ragVars, extVars>>

----------------------------------------------------------------------------
(* Bounds of the model *)

MaxFeatures == 5
MaxCtx == 2
MaxChunks == 3
MaxTopK == 4
MaxFiles == 2
MaxSections == 3

(* Program constants *)

MAX_CHUNK_TOKENS == 260
MAX_FILES_FOR_INDEX == 60
DEFAULT_TOP_K == 4

FALLBACK_MAX_FEATURES == 4
TRUNCATE_MAX == 900

----------------------------------------------------------------------------
(* Text *)

Min(a, b) == IF a < b THEN a ELSE b
Max(a, b) == IF a > b THEN a ELSE b

RunLen == [R1 |-> 1, R100 |-> 100, R130 |-> 130, R157 |-> 157, R158 |-> 158,
           R159 |-> 159, R259 |-> 259, R260 |-> 260, R300 |-> 300, R1000 |-> 1000]

AtomLen(a) == IF a \in DOMAIN RunLen THEN RunLen[a] ELSE 1

RECURSIVE TextLen(_)
TextLen(t) == IF t = <<>> THEN 0 ELSE AtomLen(Head(t)) + TextLen(Tail(t))

IsSpace(a) == a \in {" ", "\n", "\t", "    "}

RECURSIVE TrimStart(_)
TrimStart(t) ==
    IF t = <<>> THEN <<>>
    ELSE IF IsSpace(Head(t)) THEN TrimStart(Tail(t)) ELSE t

RECURSIVE TrimEnd(_)
TrimEnd(t) ==
    IF t = <<>> THEN <<>>
    ELSE IF IsSpace(t[Len(t)]) THEN TrimEnd(SubSeq(t, 1, Len(t) - 1)) ELSE t

\* String.prototype.trim
Trim(t) == TrimEnd(TrimStart(t))

\* Array.prototype.join over texts
RECURSIVE Join(_, _)
Join(parts, sep) ==
    IF parts = <<>> THEN <<>>
    ELSE IF Len(parts) = 1 THEN parts[1]
    ELSE parts[1] \o sep \o Join(Tail(parts), sep)

\* the fence marker: three backquote characters (the atom "BQ" is one backquote)
Fence == <<"BQ", "BQ", "BQ">>

FenceAt(t, i) == i + 2 <= Len(t) /\ SubSeq(t, i, i + 2) = Fence

\* text.indexOf(fence marker), 1-based; 0 stands for -1
IndexOfFence(t) ==
    IF \E i \in 1..Len(t) : FenceAt(t, i)
    THEN CHOOSE i \in 1..Len(t) : FenceAt(t, i) /\ \A j \in 1..(i - 1) : ~FenceAt(t, j)
    ELSE 0

ContainsFence(t) == IndexOfFence(t) # 0

\* text.slice(0, max): the atoms that fit whole; a run cut by the limit is
\* kept as the atom "R~" (a shorter run of the same characters)
RECURSIVE SliceTo(_, _)
SliceTo(t, max) ==
    IF t = <<>> \/ max <= 0 THEN <<>>
    ELSE IF AtomLen(Head(t)) <= max
         THEN <<Head(t)>> \o SliceTo(Tail(t), max - AtomLen(Head(t)))
         ELSE <<"R~">>

truncate(text, max) ==
    IF text = <<>> \/ TextLen(text) <= max THEN text
    ELSE SliceTo(text, max) \o <<"...">>

----------------------------------------------------------------------------
(* generateDiagramDescription and its helpers *)

DEFAULT_TEXT_MODEL == "Xenova/phi-2"

featureTechText(feature, none) ==
    IF feature.technologies = <<>> THEN <<none>>
    ELSE Join([i \in 1..Len(feature.technologies) |-> <<feature.technologies[i]>>], <<", ">>)

buildDiagramPrompt(question, chunks, features) ==
    LET chunkText ==
            Join([i \in 1..Len(chunks) |->
                    <<"Chunk ", ToString(i), " (file: ", chunks[i].chunk.path, "):", "\n">>
                    \o truncate(chunks[i].chunk.content, TRUNCATE_MAX)],
                 <<"\n", "\n">>)
        featureText ==
            Join([i \in 1..Len(features) |->
                    <<"- ", features[i].name, ": ">>
                    \o featureTechText(features[i], "Unknown")
                    \o <<" (", ToString(features[i].files), " files)">>],
                 <<"\n">>)
    IN  <<"\n", "You are an expert software architect. [...]", "\n", "\n", "Question: ">>
        \o question
        \o <<"\n", "\n", "Component summary:", "\n">> \o featureText
        \o <<"\n", "\n", "Context chunks:", "\n">> \o chunkText
        \o <<"\n", "\n", "Diagram:", "\n">>

\* a sanitize that keeps the prose before the marker
sanitizeDiagramOutput_KeepPreamble(text) == Trim(text)

\* part_001:235-242
sanitizeDiagramOutput(text) ==
    IF text = <<>> THEN <<>>
    ELSE LET startMermaid == IndexOfFence(text)
         IN  IF startMermaid # 0
             THEN Trim(SubSeq(text, startMermaid, Len(text)))
             ELSE Trim(text)

\* a fallbackDiagram without features.slice(0, 4)
fallbackSteps_AllFeatures(features) ==
    [i \in 1..Len(features) |->
        [id |-> <<"F", ToString(i)>>,
         label |-> features[i].name,
         tech |-> featureTechText(features[i], "Mixed")]]

\* the steps of fallbackDiagram: the first 4 features
fallbackSteps(features) ==
    [i \in 1..Min(Len(features), FALLBACK_MAX_FEATURES) |->
        [id |-> <<"F", ToString(i)>>,
         label |-> features[i].name,
         tech |-> featureTechText(features[i], "Mixed")]]

fallbackParticipants(features) ==
    LET steps == fallbackSteps(features)
    IN  <<  <<"participant ", "U", " as ", "User">>  >>
        \o [i \in 1..Len(steps) |->
              <<"participant ">> \o steps[i].id \o <<" as ", steps[i].label, "\\n">>
              \o steps[i].tech]
        \o (IF Len(steps) = 0
            THEN << <<"participant ", "F", "1", " as ", "Application">> >>
            ELSE <<>>)

fallbackLines(features) ==
    LET steps == fallbackSteps(features)
    IN  [i \in 1..Len(steps) |->
            IF i = 1
            THEN <<"U", "->>">> \o steps[i].id \o <<": ", "Initiate flow">>
            ELSE steps[i - 1].id \o <<"->>">> \o steps[i].id \o <<": ", "Pass control">>]
        \o (IF Len(steps) = 0
            THEN << <<"U", "->>", "F", "1", ": ", "Interact">> >>
            ELSE <<>>)

Indent(lines) == [i \in 1..Len(lines) |-> <<"    ">> \o lines[i]]

\* the lines that fallbackDiagram joins with "\n"
fallbackDiagramLines(question, chunks, features) ==
    <<Fence \o <<"mermaid">>, <<"sequenceDiagram">>, <<"    ", "autonumber">>>>
    \o Indent(fallbackParticipants(features))
    \o Indent(fallbackLines(features))
    \o <<Fence, <<>>, <<"_Generated via heuristic fallback for request:_">>, question>>

fallbackDiagram(question, chunks, features) ==
    Join(fallbackDiagramLines(question, chunks, features), <<"\n">>)

Returned(v) == [kind |-> "returned", value |-> v]
Raised(e) == [kind |-> "raised", error |-> e]
NoOutcome == [kind |-> "none"]

\* a generateDiagramDescription without the catch block: the failure reaches the caller
genOnProviderFailure_Rethrow(args) == Raised("ProviderUnavailable")

\* part_001:97-105, the catch block: the provider failed
genOnProviderFailure(args) ==
    Returned([prompt |-> buildDiagramPrompt(args.question, args.contextChunks, args.features),
              result |-> fallbackDiagram(args.question, args.contextChunks, args.features),
              model |-> "heuristic-template",
              usedLLM |-> FALSE])

\* part_001:90: output[0]?.generated_text || ""
\* an output is [kind |-> "undefined"] or [kind |-> "list", items |-> <<item, ...>>],
\* an item [hasText |-> BOOLEAN, generated_text |-> text]
genOutputThrows(output) == output.kind = "undefined"

genOutputText(output) ==
    IF output.items = <<>> THEN <<>>
    ELSE IF output.items[1].hasText THEN output.items[1].generated_text
    ELSE <<>>

\* part_001:90-96: the generator call resolved with output
genOnOutput(args, output) ==
    IF genOutputThrows(output) THEN genOnProviderFailure(args)
    ELSE Returned([prompt |-> buildDiagramPrompt(args.question, args.contextChunks, args.features),
                   result |-> sanitizeDiagramOutput(genOutputText(output)),
                   model |-> DEFAULT_TEXT_MODEL,
                   usedLLM |-> TRUE])

----------------------------------------------------------------------------
(* Lazily constructed providers (part_001:159-184).  A promise variable is  *)
(* "unset", "pending", "fulfilled" or "rejected".                           *)

Settled(p) == p \in {"fulfilled", "rejected"}

\* loadTransformers, part_001:179-184: the import is started once
loadTransformers(tp) == IF tp = "unset" THEN "pending" ELSE tp

\* the environment settles the dynamic import of the transformers module
EnvImportSettle(ok) ==
    /\ transformersPromise = "pending"
    /\ transformersPromise' = IF ok THEN "fulfilled" ELSE "rejected"
    /\ UNCHANGED <<embeddingPipelinePromise, generationPipelinePromise>>

\* the environment settles pipeline("text-generation", DEFAULT_TEXT_MODEL)
EnvGenPipelineSettle(ok) ==
    /\ generationPipelinePromise = "pending"
    /\ generationPipelinePromise' = IF ok THEN "fulfilled" ELSE "rejected"
    /\ UNCHANGED <<transformersPromise, embeddingPipelinePromise>>

----------------------------------------------------------------------------
(* The inputs of generateDiagramDescription *)

BQ == "BQ"

Questions == { <<"login", " ", "flow">>, <<>> }

FeatureSamples ==
    << [name |-> "src", technologies |-> <<"TypeScript", "CSS">>, files |-> 12],
       [name |-> "docs", technologies |-> <<>>, files |-> 3] >>

\* the feature lists of every length up to MaxFeatures that alternate between
\* the two samples, starting with either
FeatureLists ==
    { [i \in 1..n |-> FeatureSamples[((i + s) % 2) + 1]] : n \in 0..MaxFeatures, s \in 0..1 }

CtxSamples ==
    { [score |-> [dot |-> 1, mag |-> 1],
       chunk |-> [id |-> <<"a.ts", "::", "0">>, path |-> "a.ts",
                  content |-> <<"R100", "\n", "R1000">>]] }

CtxLists == UNION { [1..n -> CtxSamples] : n \in 0..MaxCtx }

GenTexts ==
    { <<>>,
      <<" ", "\n">>,
      <<" ", "A", "->", "B", "\n">>,
      <<"Sure", ":", "\n", BQ, BQ, BQ, "mermaid", "\n", "graph TD", "\n", BQ, BQ, BQ, "\n">>,
      <<BQ, BQ, BQ, "mermaid", "\n", "graph TD", "\n", BQ, BQ, BQ, " ", "done">> }

\* what the generator can resolve with
GenOutputs ==
    { [kind |-> "undefined"],
      [kind |-> "list", items |-> <<>>],
      [kind |-> "list", items |-> << [hasText |-> FALSE, generated_text |-> <<>>] >>] }
    \cup { [kind |-> "list", items |-> << [hasText |-> TRUE, generated_text |-> t] >>] :
             t \in GenTexts }

\* an output that carries no generated text
MalformedOutput(o) == o.kind = "undefined" \/ genOutputText(o) = <<>>

NoArgs == [question |-> <<>>, contextChunks |-> <<>>, features |-> <<>>]
NoCall == [state |-> "none"]

GenIdleInit ==
    /\ genPc = "idle"
    /\ genArgs = NoArgs
    /\ genCall = NoCall
    /\ genFailed = FALSE
    /\ genOutcome = NoOutcome

----------------------------------------------------------------------------
(* generateDiagramDescription, part_001:80-106, one action per run between  *)
(* two awaits                                                               *)

\* lines 81-83: the prompt is built, getGenerationPipeline runs to its first await
GenCall(q, ctx, f) ==
    /\ genPc = "idle"
    /\ genArgs' = [question |-> q, contextChunks |-> ctx, features |-> f]
    /\ genOutcome' = NoOutcome
    /\ genFailed' = FALSE
    /\ genCall' = NoCall
    /\ IF generationPipelinePromise = "unset"
       THEN /\ transformersPromise' = loadTransformers(transformersPromise)
            /\ genPc' = "awaitImport"
       ELSE /\ genPc' = "awaitPipeline"
            /\ UNCHANGED transformersPromise
    /\ UNCHANGED <<embeddingPipelinePromise, generationPipelinePromise>>

\* lines 171-176 after await loadTransformers()
GenAfterImport ==
    /\ genPc = "awaitImport"
    /\ Settled(transformersPromise)
    /\ IF transformersPromise = "fulfilled"
       THEN /\ generationPipelinePromise' = "pending"
            /\ genPc' = "awaitPipeline"
            /\ UNCHANGED <<genFailed, genOutcome>>
       ELSE /\ genFailed' = TRUE
            /\ genOutcome' = genOnProviderFailure(genArgs)
            /\ genPc' = "idle"
            /\ UNCHANGED generationPipelinePromise
    /\ UNCHANGED <<transformersPromise, embeddingPipelinePromise, genArgs, genCall>>

\* line 83 after await getGenerationPipeline(), line 84: the generator is called
GenAfterPipeline ==
    /\ genPc = "awaitPipeline"
    /\ Settled(generationPipelinePromise)
    /\ IF generationPipelinePromise = "fulfilled"
       THEN /\ genCall' = [state |-> "pending"]
            /\ genPc' = "awaitCall"
            /\ UNCHANGED <<genFailed, genOutcome>>
       ELSE /\ genFailed' = TRUE
            /\ genOutcome' = genOnProviderFailure(genArgs)
            /\ genPc' = "idle"
            /\ UNCHANGED genCall
    /\ UNCHANGED <<provVars, genArgs>>

\* the environment settles the generator call
EnvGenCallResolve(o) ==
    /\ genCall.state = "pending"
    /\ genCall' = [state |-> "fulfilled", output |-> o]
    /\ UNCHANGED <<provVars, genPc, genArgs, genFailed, genOutcome>>

EnvGenCallReject ==
    /\ genCall.state = "pending"
    /\ genCall' = [state |-> "rejected"]
    /\ UNCHANGED <<provVars, genPc, genArgs, genFailed, genOutcome>>

\* lines 90-105 after await generator(...)
GenAfterCall ==
    /\ genPc = "awaitCall"
    /\ genCall.state \in {"fulfilled", "rejected"}
    /\ IF genCall.state = "fulfilled"
       THEN /\ genOutcome' = genOnOutput(genArgs, genCall.output)
            /\ genFailed' = genOutputThrows(genCall.output)
       ELSE /\ genOutcome' = genOnProviderFailure(genArgs)
            /\ genFailed' = TRUE
    /\ genPc' = "idle"
    /\ UNCHANGED <<provVars, genArgs, genCall>>

GenProgramStep == GenAfterImport \/ GenAfterPipeline \/ GenAfterCall

----------------------------------------------------------------------------
(* retrieveContext: scoring and ranking, part_001:70-77 and 186-196 *)

\* Math.sqrt on the squared length of a model vector (a perfect square)
ISqrt(n) == CHOOSE r \in 0..n : r * r = n

RECURSIVE DotFrom(_, _, _)
DotFrom(a, b, i) == IF i > Len(a) THEN 0 ELSE a[i] * b[i] + DotFrom(a, b, i + 1)

\* a cosineSimilarity that divides by the squared lengths: no Math.sqrt
cosineSimilarity_NoSqrt(a, b) ==
    [dot |-> DotFrom(a, b, 1), mag |-> DotFrom(a, a, 1) * DotFrom(b, b, 1)]

\* part_001:186-196; the value is dot / (mag + 1e-9)
cosineSimilarity(a, b) ==
    LET dot == DotFrom(a, b, 1)
        normA == DotFrom(a, a, 1)
        normB == DotFrom(b, b, 1)
    IN  [dot |-> dot, mag |-> ISqrt(normA) * ISqrt(normB)]

Sign(n) == IF n > 0 THEN 1 ELSE IF n < 0 THEN -1 ELSE 0

\* the sign of x - y for two scores: x.dot / (x.mag + e) - y.dot / (y.mag + e)
\* has the sign of x.dot * y.mag - y.dot * x.mag + e * (x.dot - y.dot), and
\* e = 1e-9 times a difference of model dot products is below 1
ScoreCmp(x, y) ==
    LET cross == x.dot * y.mag - y.dot * x.mag
    IN  IF cross # 0 THEN Sign(cross) ELSE Sign(x.dot - y.dot)

\* a comparator that sorts ascending: (a, b) => a.score - b.score
compareScores_Ascending(a, b) == ScoreCmp(a.score, b.score)

\* part_001:75, the comparator (a, b) => b.score - a.score
compareScores(a, b) == ScoreCmp(b.score, a.score)

\* Array.prototype.sort is stable: x goes after every element that does not
\* compare greater than it
RECURSIVE InsertSorted(_, _)
InsertSorted(sorted, x) ==
    IF sorted = <<>> THEN <<x>>
    ELSE IF compareScores(sorted[Len(sorted)], x) <= 0 THEN Append(sorted, x)
    ELSE Append(InsertSorted(SubSeq(sorted, 1, Len(sorted) - 1), x), sorted[Len(sorted)])

RECURSIVE SortFrom(_, _, _)
SortFrom(entries, i, acc) ==
    IF i > Len(entries) THEN acc
    ELSE SortFrom(entries, i + 1, InsertSorted(acc, entries[i]))

sortByScore(entries) == SortFrom(entries, 1, <<>>)

\* a slice that drops one entry too many: slice(0, topK - 1)
sliceTopK_OffByOne(entries, topK) == SubSeq(entries, 1, Min(Max(topK - 1, 0), Len(entries)))

\* part_001:76, .slice(0, topK) for topK >= 0
sliceTopK(entries, topK) == SubSeq(entries, 1, Min(topK, Len(entries)))

\* part_001:71-74, the entry of position idx
scoreEntry(index, idx, questionVector) ==
    [score |-> cosineSimilarity(index.vectors[idx], questionVector),
     chunk |-> index.chunks[idx]]

\* part_001:70-77, after the question is embedded
rankChunks(index, questionVector, topK) ==
    sliceTopK(sortByScore([idx \in 1..Len(index.vectors) |->
                              scoreEntry(index, idx, questionVector)]),
              topK)

\* the vectors of the model: integer components, integer length
VecDomain == { <<0, 0>>, <<1, 0>>, <<2, 0>>, <<-1, 0>>, <<3, 4>>, <<4, 3>> }

VecNorm(v) == ISqrt(DotFrom(v, v, 1))

\* an id made of the ordinal alone
makeChunk_IdFromOrdinal(path, idx, text) ==
    [id |-> <<"chunk", "::", ToString(idx)>>, path |-> path, content |-> text]

\* path::idx, part_001:136-140
makeChunk(path, idx, text) ==
    [id |-> <<path, "::", ToString(idx)>>, path |-> path, content |-> text]

\* an index over the given vectors, of one file
IndexOver(vs) ==
    [key |-> "o/r@main",
     chunks |-> [i \in 1..Len(vs) |-> makeChunk("a.ts", i - 1, <<"R100">>)],
     vectors |-> vs,
     dims |-> IF vs = <<>> THEN 0 ELSE Len(vs[1])]

NoResult == [done |-> FALSE]

RankIdleInit ==
    /\ rIndex = IndexOver(<<>>)
    /\ rQuery = <<0, 0>>
    /\ rTopK = 0
    /\ rResult = NoResult

\* the ranking part of one retrieveContext call
RankCall(q, k) ==
    /\ ~rResult.done
    /\ rQuery' = q
    /\ rTopK' = k
    /\ rResult' = [done |-> TRUE, value |-> rankChunks(rIndex, q, k)]
    /\ UNCHANGED rIndex

\* the caller takes the ranking
RankTaken ==
    /\ rResult.done
    /\ rQuery' = <<0, 0>>
    /\ rTopK' = 0
    /\ rResult' = NoResult
    /\ UNCHANGED rIndex

----------------------------------------------------------------------------
(* chunkSourceFile, part_001:117-141 *)

RECURSIVE SkipNewlines(_, _)
SkipNewlines(t, i) ==
    IF i <= Len(t) /\ t[i] = "\n" THEN SkipNewlines(t, i + 1) ELSE i

\* content.split(/\n{2,}/): the pieces between runs of two or more newlines
RECURSIVE SplitBlankLines(_, _, _)
SplitBlankLines(t, i, cur) ==
    IF i > Len(t) THEN <<cur>>
    ELSE IF t[i] = "\n" /\ i + 1 <= Len(t) /\ t[i + 1] = "\n"
         THEN <<cur>> \o SplitBlankLines(t, SkipNewlines(t, i), <<>>)
         ELSE SplitBlankLines(t, i + 1, Append(cur, t[i]))

\* .map((section) => section.trim()).filter(Boolean)
sectionsOf(content) ==
    LET pieces == SplitBlankLines(content, 1, <<>>)
        trimmed == [i \in 1..Len(pieces) |-> Trim(pieces[i])]
    IN  SelectSeq(trimmed, LAMBDA x : x # <<>>)

BlankLine == <<"\n", "\n">>

\* a loop body that lets the buffer reach the budget
chunkStep_AtMost(st, section) ==
    IF TextLen(st.buffer) + TextLen(section) <= MAX_CHUNK_TOKENS
    THEN [chunks |-> st.chunks, buffer |-> st.buffer \o section \o BlankLine]
    ELSE [chunks |-> Append(st.chunks, Trim(st.buffer)), buffer |-> section \o BlankLine]

\* part_001:125-132, the loop body: st is [chunks, buffer]
chunkStep(st, section) ==
    IF TextLen(st.buffer) + TextLen(section) < MAX_CHUNK_TOKENS
    THEN [chunks |-> st.chunks, buffer |-> st.buffer \o section \o BlankLine]
    ELSE [chunks |-> Append(st.chunks, Trim(st.buffer)), buffer |-> section \o BlankLine]

RECURSIVE chunkLoop(_, _, _)
chunkLoop(sections, i, st) ==
    IF i > Len(sections) THEN st
    ELSE chunkLoop(sections, i + 1, chunkStep(st, sections[i]))

\* the texts of the chunks of one file
chunkTexts(content) ==
    IF content = <<>> THEN <<>>
    ELSE LET st == chunkLoop(sectionsOf(content), 1, [chunks |-> <<>>, buffer |-> <<>>])
         IN  IF Trim(st.buffer) # <<>> THEN Append(st.chunks, Trim(st.buffer)) ELSE st.chunks

chunkSourceFile(content, path) ==
    LET texts == chunkTexts(content)
    IN  [i \in 1..Len(texts) |-> makeChunk(path, i - 1, texts[i])]

----------------------------------------------------------------------------
(* The embedding provider: a deterministic stub of the pluggable extractor  *)
(* called at part_001:147 and 155                                           *)

Embed(text) ==
    IF text = <<>> THEN <<0, 0>>
    ELSE CASE Head(text) = "R100" -> <<1, 0>>
           [] Head(text) = "R130" -> <<3, 4>>
           [] Head(text) = "R159" -> <<4, 3>>
           [] Head(text) = "login" -> <<2, 0>>
           [] OTHER -> <<-1, 0>>

\* toFloat32Array, part_001:198-202: the provider's data is a Float32Array
\* already; the model's numbers are small integers, which Float32 holds exactly
toFloat32Array(data) == data

\* the environment settles pipeline("feature-extraction", DEFAULT_EMBEDDING_MODEL)
EnvEmbPipelineSettle(ok) ==
    /\ embeddingPipelinePromise = "pending"
    /\ embeddingPipelinePromise' = IF ok THEN "fulfilled" ELSE "rejected"
    /\ UNCHANGED <<transformersPromise, generationPipelinePromise>>

----------------------------------------------------------------------------
(* The index cache: saveIndex and loadIndex, part_001:42-65 *)

IndexKey(owner, repo, branch) == <<owner, "/", repo, "@", branch>>

RepoKey == IndexKey("o", "r", "main")
Keys == {RepoKey}
\* the key of a second repository, for a caller that analyses two of them
OtherKey == IndexKey("o", "s", "dev")
AppKeys == {RepoKey, OtherKey}

\* the localStorage key of an index, part_001:44 and 61
StorageKey(key) == <<"rag-index:">> \o key
StorageKeys == { StorageKey(k) : k \in AppKeys }

Absent == [kind |-> "absent"]

\* the numbers of the model are small integers; this one stands for the
\* non-finite number Infinity, which a Float32Array can hold
Infinity == 1000000

\* a number in JSON text: JSON.stringify writes a finite number so that
\* JSON.parse reads the same number back, and writes null for a non-finite one
JsonNumber(x) ==
    IF x = Infinity THEN [t |-> "null", v |-> 0] ELSE [t |-> "number", v |-> x]

\* Float32Array.from(list)[i]: the nearest Float32 of Number(element), exact
\* for the model's integers; Number(null) is 0
Float32From(j) == IF j.t = "null" THEN 0 ELSE j.v

\* a serialization without Array.from: JSON.stringify writes a Float32Array
\* as an object of indexed properties, from which Float32Array.from reads no element
serializeIndex_TypedArrays(index) ==
    [kind |-> "json",
     key |-> index.key,
     chunks |-> index.chunks,
     vectors |-> [i \in 1..Len(index.vectors) |-> <<>>],
     dims |-> index.dims]

\* part_001:56-59 and JSON.stringify: the own properties of the index, the
\* vectors as plain arrays
serializeIndex(index) ==
    [kind |-> "json",
     key |-> index.key,
     chunks |-> index.chunks,
     vectors |-> [i \in 1..Len(index.vectors) |->
                    [j \in 1..Len(index.vectors[i]) |-> JsonNumber(index.vectors[i][j])]],
     dims |-> index.dims]

\* a saveIndex that adds the new chunks and vectors to the entry it finds
saveIndex_MergeOlder(items, index, writeOk) ==
    LET older == items[StorageKey(index.key)]
        fresh == serializeIndex(index)
    IN  IF ~writeOk THEN items
        ELSE IF older.kind = "json"
        THEN [items EXCEPT ![StorageKey(index.key)] =
                 [fresh EXCEPT !.chunks = older.chunks \o fresh.chunks,
                               !.vectors = older.vectors \o fresh.vectors]]
        ELSE [items EXCEPT ![StorageKey(index.key)] = fresh]

\* a saveIndex that does not write an index without chunks
saveIndex_SkipEmpty(items, index, writeOk) ==
    IF index.key = <<>> \/ index.chunks = <<>> THEN items
    ELSE IF writeOk THEN [items EXCEPT ![StorageKey(index.key)] =
                            [kind |-> "json", key |-> index.key, chunks |-> index.chunks,
                             vectors |-> index.vectors, dims |-> index.dims]]
    ELSE items

\* part_001:54-65; writeOk is whether localStorage.setItem succeeds
saveIndex(items, index, writeOk) ==
    IF index.key = <<>> THEN items
    ELSE IF writeOk THEN [items EXCEPT ![StorageKey(index.key)] = serializeIndex(index)]
    ELSE items

\* a saveIndex without the try/catch around setItem
saveIndexThrows_NoCatch(writeOk) == ~writeOk

\* part_001:60-64: the failure of setItem is caught and logged
saveIndexThrows(writeOk) == FALSE

NoIndex == [has |-> FALSE]
SomeIndex(index) == [has |-> TRUE, index |-> index]

\* part_001:47: parsed.vectors.map((vector) => Float32Array.from(vector))
vectorsFromJson(vectors) ==
    [i \in 1..Len(vectors) |-> [j \in 1..Len(vectors[i]) |-> Float32From(vectors[i][j])]]

\* stored payloads that saveIndex did not write:
\*   "empty"       the empty string
\*   "invalid"     text that JSON.parse rejects
\*   "scalar"      JSON of null, a number, a string or an array
\*   "noVectors"   JSON of an object without a vectors property
\*   "vectorsOnly" JSON of an object whose only property is a vectors list
CorruptPayloads ==
    { [kind |-> "empty"], [kind |-> "invalid"], [kind |-> "scalar"], [kind |-> "noVectors"],
      [kind |-> "vectorsOnly", vectors |-> <<>>],
      [kind |-> "vectorsOnly", vectors |-> << <<JsonNumber(1), JsonNumber(0)>> >>] }

\* part_001:42-52: a missing or empty payload gives null (45); JSON.parse
\* throwing, or parsed.vectors.map throwing a TypeError, gives null (49-51);
\* every other parsed object is returned with its vectors converted
loadIndex(items, key) ==
    LET payload == items[StorageKey(key)]
    IN  CASE payload.kind \in {"absent", "empty"} -> NoIndex
          [] payload.kind \in {"invalid", "scalar", "noVectors"} -> NoIndex
          [] payload.kind = "vectorsOnly" ->
                SomeIndex([vectors |-> vectorsFromJson(payload.vectors)])
          [] payload.kind = "json" ->
                SomeIndex([key |-> payload.key,
                           chunks |-> payload.chunks,
                           vectors |-> vectorsFromJson(payload.vectors),
                           dims |-> payload.dims])

----------------------------------------------------------------------------
(* buildRagIndex (part_001:11-40), embedChunks (143-151), embedText          *)
(* (153-157), getEmbeddingPipeline (159-167), retrieveContext (67-78): one   *)
(* action per run between two awaits                                         *)

FileContents ==
    { <<"R100">>,
      <<"R130", "\n", "\n", "R159">> }

AllPaths == <<"a.ts", "b.ts", "c.ts", "d.ts">>

\* the file lists the caller supplies
FileLists == { SubSeq(AllPaths, 1, n) : n \in 0..Min(MaxFiles, Len(AllPaths)) }

RagTopKs == {1, DEFAULT_TOP_K}

NoRagArgs == [op |-> "none"]
\* stored is history: what localStorage held when the running build was called
FreshLocals ==
    [fileIdx |-> 0, chunks |-> <<>>, vectors |-> <<>>, fetched |-> <<>>, touched |-> FALSE,
     stored |-> [k \in StorageKeys |-> Absent]]

RagIdleInit ==
    /\ localStorageItems = [k \in StorageKeys |-> Absent]
    /\ ragIndex = NoIndex
    /\ ragPc = "idle"
    /\ ragArgs = NoRagArgs
    /\ ragLocals = FreshLocals
    /\ ragOutcome = NoOutcome

\* chunks keeps the file order broken: the new chunks go in front
chunksAfterFetch_Prepend(chunks, path, fetch) ==
    IF fetch.ok THEN chunkSourceFile(fetch.content, path) \o chunks ELSE chunks

\* part_001:22-28: a fetched file is chunked and appended, a failed one skipped
chunksAfterFetch(chunks, path, fetch) ==
    IF fetch.ok THEN chunks \o chunkSourceFile(fetch.content, path) ELSE chunks

\* vectors.unshift instead of vectors.push
vectorsAfterEmbed_Unshift(vectors, data) == <<toFloat32Array(data)>> \o vectors

\* part_001:148
vectorsAfterEmbed(vectors, data) == Append(vectors, toFloat32Array(data))

\* part_001:32-37
makeIndex(key, chunks, vectors) ==
    [key |-> key,
     chunks |-> chunks,
     vectors |-> vectors,
     dims |-> IF vectors = <<>> THEN 0 ELSE Len(vectors[1])]

\* getEmbeddingPipeline up to its first await (part_001:159-161, 179-184):
\* the position reached and the import promise
EmbPipelineEnter ==
    /\ IF embeddingPipelinePromise = "unset"
       THEN /\ transformersPromise' = loadTransformers(transformersPromise)
            /\ ragPc' = "awaitImport"
       ELSE /\ ragPc' = "awaitPipeline"
            /\ UNCHANGED transformersPromise
    /\ UNCHANGED <<embeddingPipelinePromise, generationPipelinePromise>>

\* a call ends: it throws e
RagRaise(e) ==
    /\ ragPc' = "idle"
    /\ ragOutcome' = Raised(e) @@ [op |-> ragArgs.op]

\* a buildRagIndex that takes every file of the list
filesToProcess_All(sampledFiles) == sampledFiles

\* part_001:19
filesToProcess(sampledFiles) ==
    SubSeq(sampledFiles, 1, Min(Len(sampledFiles), MAX_FILES_FOR_INDEX))

\* a build that saves what it has when an embedding fails
storeOnEmbedFailure_SavePartial(items, key, chunks, vectors) ==
    saveIndex(items, makeIndex(key, chunks, vectors), TRUE)

\* part_001:31: a rejection of embedChunks leaves buildRagIndex at once;
\* saveIndex (38) is not reached
storeOnEmbedFailure(items, key, chunks, vectors) == items

\* part_001:19-23: the files are cut to MAX_FILES_FOR_INDEX, the first fetch is awaited
\* (app.js:193-200 builds when the caller holds no index)
BuildCallFor(key, files) ==
    /\ ragPc = "idle"
    /\ ragArgs' = [op |-> "build", key |-> key, supplied |-> files,
                   files |-> filesToProcess(files)]
    /\ ragIndex' = NoIndex
    /\ IF files = <<>>
       THEN /\ ragLocals' = [FreshLocals EXCEPT !.touched = TRUE, !.stored = localStorageItems]
            /\ EmbPipelineEnter
       ELSE /\ ragLocals' = [FreshLocals EXCEPT !.fileIdx = 1, !.stored = localStorageItems]
            /\ ragPc' = "fetch"
            /\ UNCHANGED provVars
    /\ UNCHANGED <<localStorageItems, ragOutcome>>

\* the build of the index of the repository o/r@main
BuildCall(files) == BuildCallFor(RepoKey, files)

\* part_001:23-31 after await fetchFileContent(...): fetch is how it settled
BuildAfterFetch(fetch) ==
    /\ ragPc = "fetch"
    /\ LET path == ragArgs.files[ragLocals.fileIdx]
           chunks == chunksAfterFetch(ragLocals.chunks, path, fetch)
           fetched == Append(ragLocals.fetched, fetch @@ [path |-> path])
       IN  IF ragLocals.fileIdx < Len(ragArgs.files)
           THEN /\ ragLocals' = [ragLocals EXCEPT !.fileIdx = @ + 1, !.chunks = chunks,
                                                  !.fetched = fetched]
                /\ UNCHANGED <<ragPc, provVars>>
           ELSE /\ ragLocals' = [ragLocals EXCEPT !.fileIdx = 0, !.chunks = chunks,
                                                  !.fetched = fetched, !.touched = TRUE]
                /\ EmbPipelineEnter
    /\ UNCHANGED <<localStorageItems, ragIndex, ragArgs, ragOutcome>>

\* part_001:161-166 after await loadTransformers()
EmbAfterImport ==
    /\ ragPc = "awaitImport"
    /\ Settled(transformersPromise)
    /\ IF transformersPromise = "fulfilled"
       THEN /\ embeddingPipelinePromise' = "pending"
            /\ ragPc' = "awaitPipeline"
            /\ UNCHANGED ragOutcome
       ELSE /\ RagRaise("ProviderUnavailable")
            /\ UNCHANGED embeddingPipelinePromise
    /\ UNCHANGED <<transformersPromise, generationPipelinePromise,
                   localStorageItems, ragIndex, ragArgs, ragLocals>>

\* part_001:38-39: the index is saved and returned
BuildFinish(vectors, writeOk) ==
    LET index == makeIndex(ragArgs.key, ragLocals.chunks, vectors)
    IN  /\ localStorageItems' = saveIndex(localStorageItems, index, writeOk)
        /\ ragIndex' = IF saveIndexThrows(writeOk) THEN ragIndex ELSE SomeIndex(index)
        /\ ragOutcome' = IF saveIndexThrows(writeOk)
                         THEN Raised("QuotaExceededError") @@ [op |-> "build"]
                         ELSE Returned(index) @@ [op |-> "build", wrote |-> writeOk]
        /\ ragLocals' = [ragLocals EXCEPT !.vectors = vectors, !.fileIdx = 0]
        /\ ragPc' = "idle"

\* part_001:144-147 and 154-155 after await getEmbeddingPipeline(): the
\* extractor is called on the first chunk, or on the question
EmbAfterPipeline(writeOk) ==
    /\ ragPc = "awaitPipeline"
    /\ Settled(embeddingPipelinePromise)
    /\ IF embeddingPipelinePromise = "rejected"
       THEN /\ RagRaise("ProviderUnavailable")
            /\ UNCHANGED <<localStorageItems, ragIndex, ragLocals>>
       ELSE IF ragArgs.op = "retrieve"
       THEN /\ ragPc' = "awaitQuery"
            /\ UNCHANGED <<localStorageItems, ragIndex, ragLocals, ragOutcome>>
       ELSE IF ragLocals.chunks = <<>>
       THEN BuildFinish(<<>>, writeOk)
       ELSE /\ ragPc' = "embed"
            /\ ragLocals' = [ragLocals EXCEPT !.fileIdx = 1]
            /\ UNCHANGED <<localStorageItems, ragIndex, ragOutcome>>
    /\ UNCHANGED <<provVars, ragArgs>>

\* part_001:146-150 after await extractor(chunk.content, ...); ok is
\* whether the extractor call resolved
BuildAfterEmbed(ok, writeOk) ==
    /\ ragPc = "embed"
    /\ IF ~ok
       THEN /\ RagRaise("ProviderUnavailable")
            /\ localStorageItems' =
                  storeOnEmbedFailure(localStorageItems, ragArgs.key,
                                      ragLocals.chunks, ragLocals.vectors)
            /\ UNCHANGED <<ragIndex, ragLocals>>
       ELSE LET vectors == vectorsAfterEmbed(ragLocals.vectors,
                                             Embed(ragLocals.chunks[ragLocals.fileIdx].content))
            IN  IF ragLocals.fileIdx < Len(ragLocals.chunks)
                THEN /\ ragLocals' = [ragLocals EXCEPT !.fileIdx = @ + 1, !.vectors = vectors]
                     /\ UNCHANGED <<localStorageItems, ragIndex, ragPc, ragOutcome>>
                ELSE BuildFinish(vectors, writeOk)
    /\ UNCHANGED <<provVars, ragArgs>>

\* history: the index that the call before this one wrote to localStorage
LastSaved ==
    IF ragArgs.op = "build" /\ ragOutcome.kind = "returned" /\ ragOutcome.op = "build"
       /\ ragOutcome.wrote
    THEN SomeIndex(ragOutcome.value)
    ELSE IF ragArgs.op = "save" /\ ragArgs.writeOk /\ ragArgs.index.key # <<>>
    THEN SomeIndex(ragArgs.index)
    ELSE NoIndex

\* the caller awaits loadIndex(key) and keeps what it gives (app.js:193)
LoadCall(key) ==
    /\ ragPc = "idle"
    /\ ragArgs' = [op |-> "load", key |-> key, after |-> LastSaved]
    /\ ragLocals' = FreshLocals
    /\ ragIndex' = loadIndex(localStorageItems, key)
    /\ ragOutcome' = Returned(loadIndex(localStorageItems, key)) @@ [op |-> "load"]
    /\ UNCHANGED <<provVars, localStorageItems, ragPc>>

\* a retrieveContext that embeds the question before it looks at the index
retrieveChecksIndexFirst_Late == FALSE

\* part_001:68 stands before part_001:69
retrieveChecksIndexFirst == TRUE

\* part_001:68-69: index is what the caller passes (the index it holds, or none)
RetrieveCall(question, index, topK) ==
    /\ ragPc = "idle"
    /\ ragArgs' = [op |-> "retrieve", question |-> question, index |-> index, topK |-> topK]
    /\ IF ~index.has /\ retrieveChecksIndexFirst
       THEN /\ ragLocals' = FreshLocals
            /\ ragPc' = "idle"
            /\ ragOutcome' = Raised("No semantic index loaded.") @@ [op |-> "retrieve"]
            /\ UNCHANGED provVars
       ELSE /\ ragLocals' = [FreshLocals EXCEPT !.touched = TRUE]
            /\ EmbPipelineEnter
            /\ UNCHANGED ragOutcome
    /\ UNCHANGED <<localStorageItems, ragIndex>>

\* an index whose arrays retrieveContext has sorted in place, by score
indexAfterRetrieve_SortedInPlace(index, questionVector) ==
    LET ranked == rankChunks(index, questionVector, Len(index.vectors))
        pos(c) == CHOOSE i \in 1..Len(index.chunks) : index.chunks[i] = c
    IN  [index EXCEPT !.chunks = [i \in 1..Len(ranked) |-> ranked[i].chunk],
                      !.vectors = [i \in 1..Len(ranked) |-> index.vectors[pos(ranked[i].chunk)]]]

\* part_001:70-76: map builds a new array, which is sorted and sliced; the
\* arrays of the index are read only
indexAfterRetrieve(index, questionVector) == index

\* history: the call that is running repeats the query of the call before it
SameQueryAsLast ==
    /\ ragOutcome.kind = "returned"
    /\ ragOutcome.op = "retrieve"
    /\ ragOutcome.question = ragArgs.question
    /\ ragOutcome.topK = ragArgs.topK

\* part_001:69-77 after await extractor(text, ...)
RetrieveAfterEmbed(ok) ==
    /\ ragPc = "awaitQuery"
    /\ IF ~ok
       THEN /\ RagRaise("ProviderUnavailable")
            /\ UNCHANGED ragIndex
       ELSE LET questionVector == toFloat32Array(Embed(ragArgs.question))
            IN  /\ ragPc' = "idle"
                /\ ragOutcome' =
                     IF ragArgs.index.has
                     THEN Returned(rankChunks(ragArgs.index.index, questionVector, ragArgs.topK))
                          @@ [op |-> "retrieve", question |-> ragArgs.question,
                              topK |-> ragArgs.topK,
                              again |-> SameQueryAsLast]
                     ELSE Raised("No semantic index loaded.") @@ [op |-> "retrieve"]
                /\ ragIndex' =
                     IF ragIndex.has /\ ragArgs.index.has
                     THEN SomeIndex(indexAfterRetrieve(ragIndex.index, questionVector))
                     ELSE ragIndex
    /\ UNCHANGED <<provVars, localStorageItems, ragArgs, ragLocals>>

----------------------------------------------------------------------------
(* Specifications *)

ProvidersUnset ==
    /\ transformersPromise = "unset"
    /\ embeddingPipelinePromise = "unset"
    /\ generationPipelinePromise = "unset"


----------------------------------------------------------------------------
(* The page (app.js), inspectCodeFiles (analyzer.js) and the provider getters *)
(* under concurrent callers: their state at rest                             *)

NoAnalysis == [has |-> FALSE]
NoLog == [done |-> FALSE]

\* analyzer.js:23
FETCH_CONCURRENCY == 4

AppIdleInit ==
    /\ lastAnalysis = NoAnalysis
    /\ submitButtonDisabled = FALSE
    /\ pdfButtonDisabled = TRUE
    /\ appPc = "idle"
    /\ pdfPc = "idle"
    /\ submitLog = NoLog
    /\ ensureLog = NoLog

InspIdleInit ==
    /\ inspFiles = <<>>
    /\ work = <<>>
    /\ workers = [w \in 1..FETCH_CONCURRENCY |-> [pc |-> "unborn"]]
    /\ classDetails = <<>>
    /\ totalClasses = 0
    /\ fetchLog = <<>>
    /\ inspOutcome = NoLog

PipeIdleInit ==
    /\ pipeCallers = <<>>
    /\ pipePromises = <<>>
    /\ pipeRef = [embedding |-> 0, generation |-> 0]
    /\ pipeCalls = 0

ExtIdleInit == AppIdleInit /\ InspIdleInit /\ PipeIdleInit

GenInit ==
    /\ ProvidersUnset
    /\ ExtIdleInit
    /\ GenIdleInit
    /\ RankIdleInit
    /\ RagIdleInit

GenNext ==
    \/ \E q \in Questions, ctx \in CtxLists, f \in FeatureLists :
          GenCall(q, ctx, f) /\ UNCHANGED <<extVars, rankVars, ragVars>>
    \/ \E ok \in BOOLEAN : EnvImportSettle(ok) /\ UNCHANGED <<extVars, genVars, rankVars, ragVars>>
    \/ \E ok \in BOOLEAN : EnvGenPipelineSettle(ok) /\ UNCHANGED <<extVars, genVars, rankVars, ragVars>>
    \/ GenAfterImport /\ UNCHANGED <<extVars, rankVars, ragVars>>
    \/ GenAfterPipeline /\ UNCHANGED <<extVars, rankVars, ragVars>>
    \/ \E o \in GenOutputs : EnvGenCallResolve(o) /\ UNCHANGED <<extVars, rankVars, ragVars>>
    \/ EnvGenCallReject /\ UNCHANGED <<extVars, rankVars, ragVars>>
    \/ GenAfterCall /\ UNCHANGED <<extVars, rankVars, ragVars>>

SpecGen == GenInit /\ [][GenNext]_vars

\* the event loop runs a continuation whose promise has settled; nothing
\* makes the environment settle a promise
SpecGenFair ==
    /\ SpecGen
    /\ WF_vars(GenAfterImport /\ UNCHANGED <<extVars, rankVars, ragVars>>)
    /\ WF_vars(GenAfterPipeline /\ UNCHANGED <<extVars, rankVars, ragVars>>)
    /\ WF_vars(GenAfterCall /\ UNCHANGED <<extVars, rankVars, ragVars>>)

\* the ranking of retrieveContext over every index of up to MaxChunks vectors
RankInit ==
    /\ ProvidersUnset
    /\ ExtIdleInit
    /\ GenIdleInit
    /\ RagIdleInit
    /\ rIndex \in { IndexOver(vs) : vs \in UNION { [1..n -> VecDomain] : n \in 0..MaxChunks } }
    /\ rQuery = <<0, 0>>
    /\ rTopK = 0
    /\ rResult = NoResult

RankNext ==
    \/ \E q \in VecDomain, k \in 0..MaxTopK :
          RankCall(q, k) /\ UNCHANGED <<extVars, provVars, genVars, ragVars>>
    \/ RankTaken /\ UNCHANGED <<extVars, provVars, genVars, ragVars>>

SpecRank == RankInit /\ [][RankNext]_vars

\* one caller of rag.js: it builds, loads and queries the index of one repository
Init ==
    /\ ProvidersUnset
    /\ ExtIdleInit
    /\ GenIdleInit
    /\ RankIdleInit
    /\ RagIdleInit

FetchOutcomes ==
    { [ok |-> FALSE, content |-> <<>>] } \cup { [ok |-> TRUE, content |-> c] : c \in FileContents }

Next ==
    \/ \E files \in FileLists : BuildCall(files) /\ UNCHANGED <<extVars, genVars, rankVars>>
    \/ \E fetch \in FetchOutcomes : BuildAfterFetch(fetch) /\ UNCHANGED <<extVars, genVars, rankVars>>
    \/ \E ok \in BOOLEAN : EnvImportSettle(ok) /\ UNCHANGED <<extVars, genVars, rankVars, ragVars>>
    \/ \E ok \in BOOLEAN : EnvEmbPipelineSettle(ok) /\ UNCHANGED <<extVars, genVars, rankVars, ragVars>>
    \/ EmbAfterImport /\ UNCHANGED <<extVars, genVars, rankVars>>
    \/ \E writeOk \in BOOLEAN : EmbAfterPipeline(writeOk) /\ UNCHANGED <<extVars, genVars, rankVars>>
    \/ \E ok, writeOk \in BOOLEAN : BuildAfterEmbed(ok, writeOk) /\ UNCHANGED <<extVars, genVars, rankVars>>
    \/ \E key \in Keys : LoadCall(key) /\ UNCHANGED <<extVars, genVars, rankVars>>
    \/ \E q \in Questions, useHeld \in BOOLEAN, k \in RagTopKs :
          RetrieveCall(q, IF useHeld THEN ragIndex ELSE NoIndex, k)
          /\ UNCHANGED <<extVars, genVars, rankVars>>
    \/ \E ok \in BOOLEAN : RetrieveAfterEmbed(ok) /\ UNCHANGED <<extVars, genVars, rankVars>>

Spec == Init /\ [][Next]_vars

\* one buildRagIndex call over longer file lists: lists around the limit of
\* MAX_FILES_FOR_INDEX files, and short lists in which a path may repeat
PadCount == MAX_FILES_FOR_INDEX - 2
PadPath(i) == "pad" \o ToString(i) \o ".ts"
LongFiles == [i \in 1..PadCount |-> PadPath(i)] \o AllPaths

BuildFileLists ==
    { SubSeq(LongFiles, 1, n) : n \in PadCount..Min(PadCount + MaxFiles + 1, Len(LongFiles)) }
    \cup UNION { [1..n -> {"a.ts", "b.ts"}] : n \in 1..MaxFiles }

IsPadPath(path) == \A i \in 1..Len(AllPaths) : AllPaths[i] # path

\* what fetchFileContent gives for the file being fetched: a padding file
\* is empty, or cannot be fetched, by its position
BuildFetchOutcomes ==
    IF ragPc # "fetch" THEN {}
    ELSE IF IsPadPath(ragArgs.files[ragLocals.fileIdx])
    THEN { IF ragLocals.fileIdx % 2 = 0
           THEN [ok |-> TRUE, content |-> <<>>]
           ELSE [ok |-> FALSE, content |-> <<>>] }
    ELSE FetchOutcomes

BuildNext ==
    \/ \E files \in BuildFileLists :
          ragArgs.op = "none" /\ BuildCall(files) /\ UNCHANGED <<extVars, genVars, rankVars>>
    \/ \E fetch \in BuildFetchOutcomes : BuildAfterFetch(fetch) /\ UNCHANGED <<extVars, genVars, rankVars>>
    \/ \E ok \in BOOLEAN : EnvImportSettle(ok) /\ UNCHANGED <<extVars, genVars, rankVars, ragVars>>
    \/ \E ok \in BOOLEAN : EnvEmbPipelineSettle(ok) /\ UNCHANGED <<extVars, genVars, rankVars, ragVars>>
    \/ EmbAfterImport /\ UNCHANGED <<extVars, genVars, rankVars>>
    \/ \E writeOk \in BOOLEAN : EmbAfterPipeline(writeOk) /\ UNCHANGED <<extVars, genVars, rankVars>>
    \/ \E ok, writeOk \in BOOLEAN : BuildAfterEmbed(ok, writeOk) /\ UNCHANGED <<extVars, genVars, rankVars>>

SpecBuild == Init /\ [][BuildNext]_vars

\* chunkSourceFile alone, over texts of up to MaxSections sections whose
\* lengths lie on both sides of MAX_CHUNK_TOKENS
SectionSamples ==
    { <<"R100">>, <<"R157">>, <<"R158">>, <<"R259">>, <<"R260">>, <<"R1", "\n", "R1">> }

Separators == { <<"\n", "\n">>, <<" ", "\n", "\n", "\n", "\t">> }

RECURSIVE JoinSections(_, _)
JoinSections(secs, sep) ==
    IF secs = <<>> THEN <<>>
    ELSE IF Len(secs) = 1 THEN Head(secs)
    ELSE Head(secs) \o sep \o JoinSections(Tail(secs), sep)

ChunkContents ==
    { JoinSections(secs, sep) :
        secs \in UNION { [1..n -> SectionSamples] : n \in 1..MaxSections },
        sep \in Separators }
    \cup { <<>>, <<" ">>, <<"\n", "\n", " ", "\n">>, <<"\n", "\n", "R100", "\n">> }

ChunkInit ==
    /\ ProvidersUnset
    /\ ExtIdleInit
    /\ GenIdleInit
    /\ RankIdleInit
    /\ localStorageItems = [k \in StorageKeys |-> Absent]
    /\ ragIndex = NoIndex
    /\ ragPc = "idle"
    /\ ragLocals = FreshLocals
    /\ ragOutcome = NoOutcome
    /\ ragArgs \in { [op |-> "chunk", content |-> c, path |-> "a.ts"] : c \in ChunkContents }

\* chunkSourceFile(content, path), part_001:117-141
ChunkCall ==
    /\ ragArgs.op = "chunk"
    /\ ragOutcome = NoOutcome
    /\ ragOutcome' = Returned(chunkSourceFile(ragArgs.content, ragArgs.path)) @@ [op |-> "chunk"]
    /\ UNCHANGED <<provVars, localStorageItems, ragIndex, ragPc, ragArgs, ragLocals>>

ChunkNext == ChunkCall /\ UNCHANGED <<extVars, genVars, rankVars>>

SpecChunk == ChunkInit /\ [][ChunkNext]_vars

\* the index cache alone: saveIndex and loadIndex called by a caller of the
\* module, over indexes of up to MaxChunks chunks, with a localStorage that
\* code outside the module can write
CacheVecDomain == { <<1, 0>>, <<3, 4>>, <<Infinity, 0>> }

CacheIndex(key, vs) ==
    [key |-> key,
     chunks |-> [i \in 1..Len(vs) |-> makeChunk("a.ts", i - 1, <<"R100">>)],
     vectors |-> vs,
     dims |-> IF vs = <<>> THEN 0 ELSE Len(vs[1])]

CacheIndexes ==
    { CacheIndex(RepoKey, vs) : vs \in UNION { [1..n -> CacheVecDomain] : n \in 0..MaxChunks } }
    \cup { CacheIndex(<<>>, << <<1, 0>> >>) }

\* saveIndex(index), part_001:54-65, called directly
SaveCall(index, writeOk) ==
    /\ ragPc = "idle"
    /\ ragArgs' = [op |-> "save", index |-> index, writeOk |-> writeOk]
    /\ localStorageItems' = saveIndex(localStorageItems, index, writeOk)
    /\ ragOutcome' = IF saveIndexThrows(writeOk)
                     THEN Raised("QuotaExceededError") @@ [op |-> "save"]
                     ELSE Returned("undefined") @@ [op |-> "save"]
    /\ ragLocals' = FreshLocals
    /\ UNCHANGED <<provVars, ragIndex, ragPc>>

\* the entry of a key is set or removed by other code of the origin
EnvStorageSet(k, payload) ==
    /\ ragPc = "idle"
    /\ localStorageItems' = [localStorageItems EXCEPT ![k] = payload]
    /\ ragArgs' = [op |-> "env"]
    /\ UNCHANGED <<provVars, ragIndex, ragPc, ragLocals, ragOutcome>>

\* the saves and outside writes of a behaviour come before its loads
CacheNext ==
    \/ \E index \in CacheIndexes, writeOk \in BOOLEAN :
          ragArgs.op # "load" /\ SaveCall(index, writeOk) /\ UNCHANGED <<extVars, genVars, rankVars>>
    \/ \E k \in { StorageKey(key) : key \in Keys }, payload \in CorruptPayloads \cup {Absent} :
          ragArgs.op # "load" /\ EnvStorageSet(k, payload) /\ UNCHANGED <<extVars, genVars, rankVars>>
    \/ \E key \in Keys : LoadCall(key) /\ UNCHANGED <<extVars, genVars, rankVars>>

SpecCache == Init /\ [][CacheNext]_vars

----------------------------------------------------------------------------
(* Claims about generateDiagramDescription *)

\* a text that opens with the fence marker and closes it further on
IsFencedBlock(t) ==
    /\ FenceAt(t, 1)
    /\ \E i \in 4..Len(t) : FenceAt(t, i) /\ t[i - 1] = "\n"

GenReturnedValue == genOutcome.value

\* C1: generateDiagramDescription never raises to its caller; when the
\* generation provider failed (load error, pipeline error, call error) the
\* call returns usedLLM = FALSE with a non-empty result that is the fenced
\* heuristic diagram fallbackDiagram builds from the call's arguments.
C1_NeverRaisesAndFallsBack ==
    /\ genOutcome.kind # "raised"
    /\ (genPc = "idle" /\ genOutcome.kind # "none") => genOutcome.kind = "returned"
    /\ genFailed =>
         /\ genPc = "idle"
         /\ genOutcome.kind = "returned"
         /\ GenReturnedValue.usedLLM = FALSE
         /\ GenReturnedValue.model = "heuristic-template"
         /\ GenReturnedValue.result # <<>>
         /\ IsFencedBlock(GenReturnedValue.result)
         /\ GenReturnedValue.result =
              fallbackDiagram(genArgs.question, genArgs.contextChunks, genArgs.features)

\* C1 witness: a call whose provider failed has returned
C1_Witness ==
    /\ genPc = "idle"
    /\ genFailed
    /\ genCall.state = "rejected"
    /\ genOutcome.kind = "returned"
    /\ Len(genArgs.features) > FALLBACK_MAX_FEATURES

\* C2: every call of generateDiagramDescription eventually completes, also
\* when a provider promise never settles (the claim's timeout).
C2_EveryCallCompletes == (genPc = "awaitCall") ~> (genPc = "idle")

\* C3: a generator output without generated text is treated as a provider
\* failure (usedLLM = FALSE, the heuristic diagram as result), so a result
\* with usedLLM = TRUE never carries an empty diagram.
C3_MalformedOutputFallsBack ==
    (genPc = "idle" /\ genOutcome.kind = "returned") =>
        /\ (genCall.state = "fulfilled" /\ MalformedOutput(genCall.output)) =>
              /\ GenReturnedValue.usedLLM = FALSE
              /\ GenReturnedValue.result =
                   fallbackDiagram(genArgs.question, genArgs.contextChunks, genArgs.features)
        /\ GenReturnedValue.usedLLM => GenReturnedValue.result # <<>>

----------------------------------------------------------------------------
(* Claims about the ranking of retrieveContext *)

RankValue == rResult.value

\* the position in the index of a returned chunk (chunk ids are unique)
PosOf(chunk) == CHOOSE i \in 1..Len(rIndex.chunks) : rIndex.chunks[i] = chunk

ScoreAt(i) == cosineSimilarity(rIndex.vectors[i], rQuery)

\* C5: the results are in non-increasing score order, equal scores keep the
\* order of their index positions, every result pairs chunks[i] with the
\* score of vectors[i], and no position appears twice.
C5_RankedStableAligned ==
    rResult.done =>
        /\ \A k \in 1..Len(RankValue) :
              /\ \E i \in 1..Len(rIndex.chunks) : rIndex.chunks[i] = RankValue[k].chunk
              /\ RankValue[k].score = ScoreAt(PosOf(RankValue[k].chunk))
        /\ \A k, l \in 1..Len(RankValue) :
              k < l =>
                /\ ScoreCmp(RankValue[k].score, RankValue[l].score) >= 0
                /\ PosOf(RankValue[k].chunk) # PosOf(RankValue[l].chunk)
                /\ ScoreCmp(RankValue[k].score, RankValue[l].score) = 0
                     => PosOf(RankValue[k].chunk) < PosOf(RankValue[l].chunk)

\* C5 witness: a ranking of three results with a tie behind a higher score
\* that stood later in the index
C5_Witness ==
    /\ rResult.done
    /\ Len(RankValue) = 3
    /\ PosOf(RankValue[1].chunk) = 3
    /\ ScoreCmp(RankValue[1].score, RankValue[2].score) > 0
    /\ ScoreCmp(RankValue[2].score, RankValue[3].score) = 0

\* C6: retrieveContext returns exactly min(topK, n) results, the first topK
\* entries of the ranking of all n chunks; n results when topK exceeds n.
C6_TopKClamped ==
    rResult.done =>
        /\ Len(RankValue) = Min(rTopK, Len(rIndex.chunks))
        /\ (rTopK > Len(rIndex.chunks) => Len(RankValue) = Len(rIndex.chunks))
        /\ RankValue = SubSeq(rankChunks(rIndex, rQuery, Len(rIndex.chunks)), 1, Len(RankValue))

\* C6 witness: topK exceeds the number of chunks of a non-empty index
C6_Witness ==
    /\ rResult.done
    /\ rTopK > Len(rIndex.chunks)
    /\ Len(rIndex.chunks) >= 2
    /\ Len(RankValue) = Len(rIndex.chunks)

\* the query is a positive multiple of the non-zero vector v
SameDirection(v, q) ==
    /\ VecNorm(v) > 0
    /\ VecNorm(q) > 0
    /\ DotFrom(v, q, 1) = VecNorm(v) * VecNorm(q)

IsMaxScore(i) == \A j \in 1..Len(rIndex.vectors) : ScoreCmp(ScoreAt(i), ScoreAt(j)) >= 0

\* the earliest position whose score is the maximum
FirstMaxPos ==
    CHOOSE i \in 1..Len(rIndex.vectors) :
        /\ IsMaxScore(i)
        /\ \A j \in 1..(i - 1) : ~IsMaxScore(j)

\* C7 as stated: a chunk whose stored vector is the query up to positive
\* scaling has the maximum score of the index, and the earliest chunk with
\* the maximum score is returned first when topK >= 1.
C7_IdenticalVectorScoresMax ==
    rResult.done =>
        \A i \in 1..Len(rIndex.vectors) :
            SameDirection(rIndex.vectors[i], rQuery) =>
                /\ IsMaxScore(i)
                /\ rTopK >= 1 => RankValue[1].chunk = rIndex.chunks[FirstMaxPos]

\* C7 amended: such a chunk scores at least as high as every chunk whose
\* stored vector is no longer than its own; when no stored vector of the
\* index is longer than its own, it has the maximum score and the earliest
\* chunk with the maximum score is returned first when topK >= 1.
C7_IdenticalVectorScoresMaxAmongNoLonger ==
    rResult.done =>
        \A i \in 1..Len(rIndex.vectors) :
            SameDirection(rIndex.vectors[i], rQuery) =>
                /\ \A j \in 1..Len(rIndex.vectors) :
                      VecNorm(rIndex.vectors[j]) <= VecNorm(rIndex.vectors[i])
                          => ScoreCmp(ScoreAt(i), ScoreAt(j)) >= 0
                /\ (\A j \in 1..Len(rIndex.vectors) :
                       VecNorm(rIndex.vectors[j]) <= VecNorm(rIndex.vectors[i]))
                   => /\ IsMaxScore(i)
                      /\ rTopK >= 1 => RankValue[1].chunk = rIndex.chunks[FirstMaxPos]

\* C7 witness: the identical vector stands last, behind a vector of the same
\* length in another direction, and is returned first
C7_Witness ==
    /\ rResult.done
    /\ rTopK >= 1
    /\ Len(rIndex.vectors) = 3
    /\ rIndex.vectors[1] = <<4, 3>>
    /\ rIndex.vectors[3] = <<3, 4>>
    /\ rQuery = <<3, 4>>
    /\ VecNorm(rIndex.vectors[2]) < 5
    /\ RankValue[1].chunk = rIndex.chunks[3]

----------------------------------------------------------------------------
(* Claims about retrieveContext, buildRagIndex and the index cache *)

\* C4: retrieveContext with an absent index fails with 'No semantic index
\* loaded.', for every question and topK, before the embedding provider is
\* loaded or called.
C4_NoIndexFailsBeforeProvider ==
    (ragArgs.op = "retrieve" /\ ~ragArgs.index.has) =>
        /\ ragPc = "idle"
        /\ ragOutcome.kind = "raised"
        /\ ragOutcome.op = "retrieve"
        /\ ragOutcome.error = "No semantic index loaded."
        /\ ~ragLocals.touched

\* C4 witness: the call without an index failed while no provider was loaded
C4_Witness ==
    /\ ragArgs.op = "retrieve"
    /\ ~ragArgs.index.has
    /\ ragOutcome.kind = "raised"
    /\ transformersPromise = "unset"
    /\ embeddingPipelinePromise = "unset"

\* C8: a retrieveContext call leaves the index (chunks, vectors, dims) and
\* the cache entry as they were, and a call that repeats the query of the
\* call before it returns the same ordered results.
C8_RetrieveRepeatableNoEffect ==
    [][ /\ ragArgs'.op = "retrieve" =>
              /\ ragIndex' = ragIndex
              /\ localStorageItems' = localStorageItems
        /\ (ragPc = "awaitQuery" /\ ragPc' = "idle" /\ ragOutcome'.kind = "returned") =>
              /\ ragOutcome'.value =
                   rankChunks(ragIndex'.index, Embed(ragArgs.question), ragArgs.topK)
              /\ SameQueryAsLast => ragOutcome'.value = ragOutcome.value
      ]_vars

\* C8 witness: a query was repeated on an index of several chunks whose
\* ranking differs from the index order
C8_Witness ==
    /\ ragPc = "idle"
    /\ ragArgs.op = "retrieve"
    /\ ragOutcome.kind = "returned"
    /\ ragOutcome.op = "retrieve"
    /\ ragOutcome.again
    /\ Len(ragOutcome.value) >= 2
    /\ ragOutcome.value[1].chunk # ragIndex.index.chunks[1]
    /\ localStorageItems[StorageKey(RepoKey)].kind = "json"

AlignedIndex(index) ==
    /\ Len(index.chunks) = Len(index.vectors)
    /\ \A i \in 1..Len(index.chunks) : index.vectors[i] = Embed(index.chunks[i].content)

\* C9: every index returned by buildRagIndex, and every index loadIndex
\* returns for an entry saveIndex wrote, has as many vectors as chunks, the
\* vector of position i being the embedding of the content of chunk i.
C9_ChunksAndVectorsAligned ==
    /\ (ragOutcome.kind = "returned" /\ ragOutcome.op = "build") =>
          AlignedIndex(ragOutcome.value)
    /\ (ragOutcome.kind = "returned" /\ ragOutcome.op = "load" /\ ragOutcome.value.has) =>
          AlignedIndex(ragOutcome.value.index)
    /\ ragIndex.has => AlignedIndex(ragIndex.index)
    /\ \A k \in Keys :
          localStorageItems[StorageKey(k)].kind = "json" =>
              AlignedIndex(loadIndex(localStorageItems, k).index)

\* C9 witness: loadIndex returned an index of three chunks or more, with
\* different vectors, that a build had saved
C9_Witness ==
    /\ ragOutcome.kind = "returned"
    /\ ragOutcome.op = "load"
    /\ ragOutcome.value.has
    /\ Len(ragOutcome.value.index.chunks) >= 3
    /\ ragOutcome.value.index.vectors[1] # ragOutcome.value.index.vectors[2]

\* the chunks of the files whose fetch succeeded, in the order of the fetches
RECURSIVE ChunksOfFetched(_)
ChunksOfFetched(fetched) ==
    IF fetched = <<>> THEN <<>>
    ELSE (IF Head(fetched).ok
          THEN chunkSourceFile(Head(fetched).content, Head(fetched).path)
          ELSE <<>>)
         \o ChunksOfFetched(Tail(fetched))

BuildJustEnded == ragPc = "idle" /\ ragArgs.op = "build"

\* C10: a fetch failure does not abort buildRagIndex: every file of the list
\* is fetched in order, a failing file is skipped, and the chunks of the
\* index are the chunks of the fetched files in file order, then chunk order.
C10_FetchFailureSkipsFile ==
    /\ (ragArgs.op = "build" /\ ragPc \in {"fetch"}) =>
          Len(ragLocals.fetched) = ragLocals.fileIdx - 1
    /\ (ragArgs.op = "build" /\ ragPc # "fetch") =>
          /\ Len(ragLocals.fetched) = Len(ragArgs.files)
          /\ \A i \in 1..Len(ragArgs.files) : ragLocals.fetched[i].path = ragArgs.files[i]
          /\ ragLocals.chunks = ChunksOfFetched(ragLocals.fetched)
    /\ (BuildJustEnded /\ ragOutcome.kind = "raised") =>
          ragOutcome.error = "ProviderUnavailable"
    /\ (BuildJustEnded /\ ragOutcome.kind = "returned") =>
          ragOutcome.value.chunks = ChunksOfFetched(ragLocals.fetched)

\* C10 witness: a build returned an index although its first fetch failed;
\* the index holds the two chunks of the second file
C10_Witness ==
    /\ BuildJustEnded
    /\ ragOutcome.kind = "returned"
    /\ Len(ragLocals.fetched) >= 2
    /\ ~ragLocals.fetched[1].ok
    /\ ragLocals.fetched[2].ok
    /\ Len(ragOutcome.value.chunks) = 2


BuildReturned == BuildJustEnded /\ ragOutcome.kind = "returned" /\ ragOutcome.op = "build"
BuildRaised == BuildJustEnded /\ ragOutcome.kind = "raised"
BuildRunning == ragArgs.op = "build" /\ ragPc # "idle"
EmbeddingProviderBroken ==
    transformersPromise = "rejected" \/ embeddingPipelinePromise = "rejected"

\* C11: when the embedding provider cannot be constructed, or fails on a
\* chunk, buildRagIndex fails as a whole: the call raises, the caller holds no
\* index, no returned index has fewer vectors than chunks, and localStorage is,
\* during the build and at its failure, what it was when the build was called.
C11_EmbeddingFailureFailsBuild ==
    /\ (BuildJustEnded /\ EmbeddingProviderBroken) => BuildRaised
    /\ BuildRaised =>
          /\ ragOutcome.error = "ProviderUnavailable"
          /\ ragIndex = NoIndex
          /\ localStorageItems = ragLocals.stored
    /\ BuildRunning => localStorageItems = ragLocals.stored
    /\ BuildReturned => Len(ragOutcome.value.vectors) = Len(ragOutcome.value.chunks)

\* C11 witness: a rebuild failed on its second chunk, after the first chunk
\* was embedded, while localStorage held the index of an earlier build
C11_Witness ==
    /\ BuildRaised
    /\ Len(ragLocals.chunks) >= 2
    /\ Len(ragLocals.vectors) = 1
    /\ ragLocals.stored[StorageKey(RepoKey)].kind = "json"
    /\ localStorageItems = ragLocals.stored

\* C12: when buildRagIndex returns an index and the write did not fail,
\* localStorage holds under rag-index:owner/repo@branch exactly the
\* serialization of the returned index, whatever it held before, and a
\* loadIndex of that key called next returns an index equal to it.
C12_BuildPersistsBeforeReturn ==
    /\ (BuildReturned /\ ragOutcome.wrote) =>
          /\ ragOutcome.value.key = IndexKey("o", "r", "main")
          /\ localStorageItems[StorageKey(ragOutcome.value.key)]
                = serializeIndex(ragOutcome.value)
    /\ (ragArgs.op = "load" /\ ragArgs.after.has /\ ragArgs.after.index.key = ragArgs.key) =>
          /\ ragOutcome.kind = "returned"
          /\ ragOutcome.value = ragArgs.after

\* C12 witness: loadIndex was called right after a build that wrote an index
\* of two chunks or more, and returned it
C12_Witness ==
    /\ ragArgs.op = "load"
    /\ ragArgs.after.has
    /\ ragOutcome.value.has
    /\ Len(ragOutcome.value.index.chunks) >= 2
    /\ ragOutcome.value.index.dims = 2

\* the vectors of the chunks, as embedChunks computes them
EmbedAll(chunks) == [i \in 1..Len(chunks) |-> toFloat32Array(Embed(chunks[i].content))]

NothingStored == \A k \in StorageKeys : localStorageItems[k].kind = "absent"

\* C14: a failing localStorage.setItem is not fatal: buildRagIndex raises
\* only for the embedding provider, the index it returns is the same whether
\* or not the write succeeded (the chunks of the fetched files, their vectors
\* and dims), and retrieveContext over an index that was never stored
\* returns its ranking.
C14_StorageFailureNotFatal ==
    /\ BuildRaised => ragOutcome.error = "ProviderUnavailable"
    /\ BuildReturned =>
          /\ ragOutcome.value = makeIndex(IndexKey("o", "r", "main"),
                                          ChunksOfFetched(ragLocals.fetched),
                                          EmbedAll(ChunksOfFetched(ragLocals.fetched)))
          /\ ragIndex = SomeIndex(ragOutcome.value)
          /\ ~ragOutcome.wrote => localStorageItems = ragLocals.stored
    /\ (ragArgs.op = "retrieve" /\ ragPc = "idle" /\ ragArgs.index.has /\ NothingStored) =>
          \/ ragOutcome.kind = "raised" /\ ragOutcome.error = "ProviderUnavailable"
          \/ /\ ragOutcome.kind = "returned"
             /\ Len(ragOutcome.value)
                  = Min(ragArgs.topK, Len(ragArgs.index.index.chunks))

\* C14 witness: retrieveContext returned a result over the index of a build
\* whose write failed, localStorage being empty still
C14_Witness ==
    /\ ragArgs.op = "retrieve"
    /\ ragPc = "idle"
    /\ ragArgs.index.has
    /\ NothingStored
    /\ ragOutcome.kind = "returned"
    /\ Len(ragOutcome.value) >= 1


LoadAfterSave ==
    /\ ragArgs.op = "load"
    /\ ragArgs.after.has
    /\ ragArgs.after.index.key = ragArgs.key

AllFinite(vectors) ==
    \A i \in 1..Len(vectors) : \A j \in 1..Len(vectors[i]) : vectors[i][j] # Infinity

\* C13 as stated: loadIndex(index.key) right after a saveIndex(index) whose
\* write succeeded returns an index with the same key, chunks, dims and
\* vectors, element by element, for every index with a key.
C13_RoundTripEveryIndex ==
    LoadAfterSave =>
        /\ ragOutcome.kind = "returned"
        /\ ragOutcome.value.has
        /\ ragOutcome.value.index.key = ragArgs.after.index.key
        /\ ragOutcome.value.index.chunks = ragArgs.after.index.chunks
        /\ ragOutcome.value.index.dims = ragArgs.after.index.dims
        /\ ragOutcome.value.index.vectors = ragArgs.after.index.vectors

\* C13 amended: the round trip gives back the key, the chunks in order, dims,
\* as many vectors of the same lengths, and every finite element unchanged; a
\* non-finite element comes back as 0. So an index whose vectors hold finite
\* numbers only comes back equal.
C13_RoundTripFiniteVectors ==
    LoadAfterSave =>
        /\ ragOutcome.kind = "returned"
        /\ ragOutcome.value.has
        /\ ragOutcome.value.index.key = ragArgs.after.index.key
        /\ ragOutcome.value.index.chunks = ragArgs.after.index.chunks
        /\ ragOutcome.value.index.dims = ragArgs.after.index.dims
        /\ LET orig == ragArgs.after.index.vectors
               back == ragOutcome.value.index.vectors
           IN  /\ Len(back) = Len(orig)
               /\ \A i \in 1..Len(orig) :
                     /\ Len(back[i]) = Len(orig[i])
                     /\ \A j \in 1..Len(orig[i]) :
                           back[i][j] = IF orig[i][j] = Infinity THEN 0 ELSE orig[i][j]
               /\ AllFinite(orig) => back = orig

\* C13 witness: an index of two different finite vectors, saved by a direct
\* saveIndex call, came back from loadIndex
C13_Witness ==
    /\ LoadAfterSave
    /\ ragArgs.after.index \in CacheIndexes
    /\ Len(ragArgs.after.index.vectors) >= 2
    /\ AllFinite(ragArgs.after.index.vectors)
    /\ ragArgs.after.index.vectors[1] # ragArgs.after.index.vectors[2]
    /\ ragOutcome.value = ragArgs.after

\* C15: loadIndex never throws, and gives null for a missing key and for
\* every stored payload that is not the serialization of an index.
C15_CorruptPayloadIsAbsent ==
    ragArgs.op = "load" =>
        /\ ragOutcome.kind = "returned"
        /\ localStorageItems[StorageKey(ragArgs.key)].kind # "json" =>
              ragOutcome.value = NoIndex


\* C16: buildRagIndex fetches the first MAX_FILES_FOR_INDEX files of its
\* list in order and no other: the files fetched so far are a prefix of the
\* list no longer than the limit, all of that prefix once the fetches are
\* over; a longer list is no error, and the chunks of a returned index are
\* those of the fetched files.
C16_AtMostMaxFilesFetched ==
    ragArgs.op = "build" =>
        LET limit == Min(Len(ragArgs.supplied), MAX_FILES_FOR_INDEX)
        IN  /\ Len(ragLocals.fetched) <= limit
            /\ \A i \in 1..Len(ragLocals.fetched) :
                  ragLocals.fetched[i].path = ragArgs.supplied[i]
            /\ ragPc = "fetch" => ragLocals.fileIdx <= limit
            /\ ragPc # "fetch" => Len(ragLocals.fetched) = limit
            /\ BuildRaised => ragOutcome.error = "ProviderUnavailable"
            /\ BuildReturned =>
                  ragOutcome.value.chunks = ChunksOfFetched(ragLocals.fetched)

\* C16 witness: a build over a list of more than MAX_FILES_FOR_INDEX files
\* returned an index after MAX_FILES_FOR_INDEX fetches, with a chunk of the
\* last file within the limit
C16_Witness ==
    /\ BuildReturned
    /\ Len(ragArgs.supplied) > MAX_FILES_FOR_INDEX
    /\ Len(ragLocals.fetched) = MAX_FILES_FOR_INDEX
    /\ \E i \in 1..Len(ragOutcome.value.chunks) :
          ragOutcome.value.chunks[i].path = ragArgs.supplied[MAX_FILES_FOR_INDEX]

UniqueIds(chunks) ==
    \A i, j \in 1..Len(chunks) : chunks[i].id = chunks[j].id => i = j

DistinctPaths(files) ==
    \A i, j \in 1..Len(files) : files[i] = files[j] => i = j

\* the number of chunks of the same path before position i
OrdinalInFile(chunks, i) == Cardinality({ j \in 1..(i - 1) : chunks[j].path = chunks[i].path })

\* C20 as stated: no two chunks of the index that buildRagIndex returns share
\* an id, for every list of files.
C20_ChunkIdsUniqueEveryList ==
    BuildReturned => UniqueIds(ragOutcome.value.chunks)

\* C20 amended: when the paths of the files that are processed are pairwise
\* different, no two chunks of the returned index share an id, and the id of
\* a chunk is its path, "::" and its ordinal among the chunks of its file.
C20_ChunkIdsUniqueDistinctPaths ==
    (BuildReturned /\ DistinctPaths(ragArgs.files)) =>
        /\ UniqueIds(ragOutcome.value.chunks)
        /\ \A i \in 1..Len(ragOutcome.value.chunks) :
              ragOutcome.value.chunks[i].id
                 = << ragOutcome.value.chunks[i].path, "::",
                      ToString(OrdinalInFile(ragOutcome.value.chunks, i)) >>

\* C20 witness: the index of two files of different paths and identical
\* content, two chunks each
C20_Witness ==
    /\ BuildReturned
    /\ DistinctPaths(ragArgs.files)
    /\ Len(ragLocals.fetched) = 2
    /\ ragLocals.fetched[1].ok /\ ragLocals.fetched[2].ok
    /\ ragLocals.fetched[1].content = ragLocals.fetched[2].content
    /\ Len(ragOutcome.value.chunks) = 4


ChunkReturned == ragArgs.op = "chunk" /\ ragOutcome.kind = "returned"

\* C17: every chunk that chunkSourceFile produces has non-empty content, and
\* a content that is empty or white space gives no chunk.
C17_ChunksNonEmpty ==
    ChunkReturned =>
        /\ \A i \in 1..Len(ragOutcome.value) : ragOutcome.value[i].content # <<>>
        /\ Trim(ragArgs.content) = <<>> => ragOutcome.value = <<>>

\* the pieces of a chunk between blank lines
PiecesOf(text) == SplitBlankLines(text, 1, <<>>)

Occurrences(seq, x) == Cardinality({ i \in 1..Len(seq) : seq[i] = x })

ChunkContentsOf(chunks) == [i \in 1..Len(chunks) |-> chunks[i].content]

\* C18: a chunk of MAX_CHUNK_TOKENS characters or more is one section of
\* that length; a chunk of two sections or more is shorter than
\* MAX_CHUNK_TOKENS; a section of MAX_CHUNK_TOKENS characters or more is the
\* whole content of one chunk for each of its occurrences in the input.
C18_ChunkSizeBudget ==
    ChunkReturned =>
        LET chunks == ragOutcome.value
            sections == sectionsOf(ragArgs.content)
        IN  /\ \A i \in 1..Len(chunks) :
                  LET pieces == PiecesOf(chunks[i].content)
                  IN  /\ TextLen(chunks[i].content) >= MAX_CHUNK_TOKENS =>
                            /\ Len(pieces) = 1
                            /\ \E k \in 1..Len(sections) : sections[k] = chunks[i].content
                      /\ Len(pieces) >= 2 => TextLen(chunks[i].content) < MAX_CHUNK_TOKENS
            /\ \A k \in 1..Len(sections) :
                  TextLen(sections[k]) >= MAX_CHUNK_TOKENS =>
                      Occurrences(ChunkContentsOf(chunks), sections[k])
                         = Occurrences(sections, sections[k])

\* C18 witness: a chunk of two sections one character under the budget,
\* followed by a chunk that is one section of the budget's length
C18_Witness ==
    /\ ChunkReturned
    /\ \E i \in 1..Len(ragOutcome.value) :
          /\ Len(PiecesOf(ragOutcome.value[i].content)) = 2
          /\ TextLen(ragOutcome.value[i].content) = MAX_CHUNK_TOKENS - 1
    /\ \E i \in 1..Len(ragOutcome.value) :
          TextLen(ragOutcome.value[i].content) >= MAX_CHUNK_TOKENS

RECURSIVE PiecesOfAll(_)
PiecesOfAll(chunks) ==
    IF chunks = <<>> THEN <<>>
    ELSE PiecesOf(Head(chunks).content) \o PiecesOfAll(Tail(chunks))

\* C19: for a non-empty input, the pieces between blank lines of the
\* chunks, read in order, are the trimmed non-empty sections of the input in
\* their order.
C19_ChunksPreserveSections ==
    (ChunkReturned /\ ragArgs.content # <<>>) =>
        PiecesOfAll(ragOutcome.value) = sectionsOf(ragArgs.content)


----------------------------------------------------------------------------
(* Claims about fallbackDiagram and sanitizeDiagramOutput *)

\* text.split("\n")
LineBreaksUpTo(t, i) == Cardinality({ j \in 1..i : t[j] = "\n" })

\* the position of the k-th line break of t
LineBreakAt(t, k) ==
    CHOOSE i \in 1..Len(t) : t[i] = "\n" /\ LineBreaksUpTo(t, i) = k

LinesOf(t) ==
    LET n == LineBreaksUpTo(t, Len(t))
    IN  [k \in 1..(n + 1) |->
            SubSeq(t,
                   IF k = 1 THEN 1 ELSE LineBreakAt(t, k - 1) + 1,
                   IF k = n + 1 THEN Len(t) ELSE LineBreakAt(t, k) - 1)]

StartsWith(t, prefix) == Len(t) >= Len(prefix) /\ SubSeq(t, 1, Len(prefix)) = prefix

FallbackReturned ==
    /\ genPc = "idle"
    /\ genOutcome.kind = "returned"
    /\ ~GenReturnedValue.usedLLM

\* C22: the heuristic diagram is, line by line: the opening fence, the
\* header, the User participant, one participant F1..Fk for each of the
\* first k = min(4, number of features) features in order (the placeholder
\* Application when there is none), the message from User to F1 and one
\* message from F(i-1) to F(i) for i = 2..k, the closing fence, and the
\* question as the last line; no other line holds a fence marker.
C22_FallbackUsesFirstFourFeatures ==
    FallbackReturned =>
        LET features == genArgs.features
            lines == LinesOf(GenReturnedValue.result)
            k == Min(FALLBACK_MAX_FEATURES, Len(features))
            n == Max(k, 1)
        IN  /\ Len(lines) = 3 + (1 + n) + n + 4
            /\ lines[1] = Fence \o <<"mermaid">>
            /\ lines[4] = <<"    ", "participant ", "U", " as ", "User">>
            /\ \A i \in 1..k :
                  StartsWith(lines[4 + i],
                             <<"    ", "participant ", "F", ToString(i), " as ",
                               features[i].name>>)
            /\ k = 0 => lines[5] = <<"    ", "participant ", "F", "1", " as ", "Application">>
            /\ StartsWith(lines[4 + n + 1], <<"    ", "U", "->>", "F", "1", ": ">>)
            /\ \A i \in 2..k :
                  StartsWith(lines[4 + n + i],
                             <<"    ", "F", ToString(i - 1), "->>", "F", ToString(i), ": ">>)
            /\ lines[4 + 2 * n + 1] = Fence
            /\ \A i \in 1..Len(lines) : ContainsFence(lines[i]) => i \in {1, 4 + 2 * n + 1}
            /\ lines[Len(lines)] = genArgs.question

\* C22 witness: the fallback for a named question and more than four features
C22_Witness ==
    /\ FallbackReturned
    /\ genArgs.question # <<>>
    /\ Len(genArgs.features) = FALLBACK_MAX_FEATURES + 1
    /\ Len(LinesOf(GenReturnedValue.result)) = 16

LLMReturned ==
    /\ genPc = "idle"
    /\ genOutcome.kind = "returned"
    /\ GenReturnedValue.usedLLM

\* C23: on provider success the result is the generated text from its first
\* fence marker on, trimmed, or the whole text trimmed when it has no marker:
\* a result that contains a marker begins with it, and sanitizing the result
\* again gives the result.
C23_SanitizedFromFirstFence ==
    LLMReturned =>
        LET raw == genOutputText(genCall.output)
            result == GenReturnedValue.result
        IN  /\ GenReturnedValue.model = DEFAULT_TEXT_MODEL
            /\ ContainsFence(raw) =>
                  \E i \in 1..Len(raw) :
                      /\ FenceAt(raw, i)
                      /\ \A j \in 1..(i - 1) : ~FenceAt(raw, j)
                      /\ result = TrimEnd(SubSeq(raw, i, Len(raw)))
            /\ ~ContainsFence(raw) => result = Trim(raw)
            /\ ContainsFence(result) => FenceAt(result, 1)
            /\ sanitizeDiagramOutput(result) = result

\* C23 witness: a generated text with prose before its fenced block
C23_Witness ==
    /\ LLMReturned
    /\ IndexOfFence(genOutputText(genCall.output)) > 1
    /\ FenceAt(GenReturnedValue.result, 1)


----------------------------------------------------------------------------
(* getEmbeddingPipeline and getGenerationPipeline under concurrent callers, *)
(* part_001:159-184.  A caller is a call of one of the two getters, made by *)
(* embedChunks, embedText or generateDiagramDescription; nothing in rag.js  *)
(* keeps a second call from starting while the first one awaits the import. *)

MaxPipeCalls == 3

PipeKinds == {"embedding", "generation"}

\* the state of the promise a module variable refers to
RefState(ref, promises) == IF ref = 0 THEN "unset" ELSE promises[ref].state

\* part_001:8-9 hold the promise that pipeRef points at
PipeSync ==
    /\ embeddingPipelinePromise' = RefState(pipeRef'.embedding, pipePromises')
    /\ generationPipelinePromise' = RefState(pipeRef'.generation, pipePromises')

\* history: the import, or a construction of this kind of pipeline, has failed
FailedBefore(kind) ==
    \/ transformersPromise = "rejected"
    \/ \E i \in 1..Len(pipePromises) :
          pipePromises[i].kind = kind /\ pipePromises[i].state = "rejected"

\* part_001:160-161 and 166 (170-171 and 176): the getter up to its first
\* await, or up to its return when the module variable is already set
PipeCall(kind) ==
    /\ pipeCalls < MaxPipeCalls
    /\ pipeCalls' = pipeCalls + 1
    /\ IF pipeRef[kind] = 0
       THEN /\ transformersPromise' = loadTransformers(transformersPromise)
            /\ pipeCallers' = Append(pipeCallers,
                                     [kind |-> kind, pc |-> "awaitImport", got |-> 0,
                                      afterFailure |-> FailedBefore(kind)])
       ELSE /\ pipeCallers' = Append(pipeCallers,
                                     [kind |-> kind, pc |-> "returned", got |-> pipeRef[kind],
                                      afterFailure |-> FailedBefore(kind)])
            /\ UNCHANGED transformersPromise
    /\ UNCHANGED <<embeddingPipelinePromise, generationPipelinePromise, pipePromises, pipeRef>>

\* part_001:161-166 (171-176) after await loadTransformers(): the callers
\* that await the import go on in the order in which they began to await
PipeAfterImport(c) ==
    /\ c \in 1..Len(pipeCallers)
    /\ pipeCallers[c].pc = "awaitImport"
    /\ \A b \in 1..(c - 1) : pipeCallers[b].pc # "awaitImport"
    /\ Settled(transformersPromise)
    /\ IF transformersPromise = "fulfilled"
       THEN /\ pipePromises' = Append(pipePromises,
                                      [kind |-> pipeCallers[c].kind, state |-> "pending"])
            /\ pipeRef' = [pipeRef EXCEPT ![pipeCallers[c].kind] = Len(pipePromises) + 1]
            /\ pipeCallers' = [pipeCallers EXCEPT ![c].pc = "returned",
                                                  ![c].got = Len(pipePromises) + 1]
       ELSE /\ pipeCallers' = [pipeCallers EXCEPT ![c].pc = "threw"]
            /\ UNCHANGED <<pipePromises, pipeRef>>
    /\ PipeSync
    /\ UNCHANGED <<transformersPromise, pipeCalls>>

\* the environment settles one of the promises that pipeline(...) returned
EnvPipeSettle(i, ok) ==
    /\ i \in 1..Len(pipePromises)
    /\ pipePromises[i].state = "pending"
    /\ pipePromises' = [pipePromises EXCEPT ![i].state = IF ok THEN "fulfilled" ELSE "rejected"]
    /\ UNCHANGED <<transformersPromise, pipeCallers, pipeRef, pipeCalls>>
    /\ PipeSync

PipeNext ==
    \/ \E kind \in PipeKinds :
          PipeCall(kind) /\ UNCHANGED <<genVars, rankVars, ragVars, appVars, inspVars>>
    \/ \E ok \in BOOLEAN :
          EnvImportSettle(ok) /\ UNCHANGED <<genVars, rankVars, ragVars, extVars>>
    \/ \E c \in 1..MaxPipeCalls :
          PipeAfterImport(c) /\ UNCHANGED <<genVars, rankVars, ragVars, appVars, inspVars>>
    \/ \E i \in 1..MaxPipeCalls, ok \in BOOLEAN :
          EnvPipeSettle(i, ok) /\ UNCHANGED <<genVars, rankVars, ragVars, appVars, inspVars>>

SpecPipe == Init /\ [][PipeNext]_vars

\* C21: each provider is constructed at most once per process: under every
\* interleaving of the calls that need it, pipeline(...) is invoked at most
\* once for the embedding provider and at most once for the generation
\* provider, so that the module variable is never assigned a second time
C21_ProvidersConstructedOnce ==
    \A kind \in PipeKinds :
        Cardinality({ i \in 1..Len(pipePromises) : pipePromises[i].kind = kind }) <= 1

\* C26: a provider load failure is sticky: a call that starts after the
\* import or a construction of its pipeline has failed does not get a
\* working provider; it throws, or it is given a promise that is not fulfilled
C26_LoadFailureSticky ==
    \A c \in 1..Len(pipeCallers) :
        (pipeCallers[c].afterFailure /\ pipeCallers[c].pc # "awaitImport")
        => \/ pipeCallers[c].pc = "threw"
           \/ /\ pipeCallers[c].pc = "returned"
              /\ pipePromises[pipeCallers[c].got].state # "fulfilled"


----------------------------------------------------------------------------
(* The page: the submit handler, ensureRagIndex, generatePresetDiagrams and *)
(* the PDF click handler of app.js.  The handlers are taken as attached to  *)
(* their elements.  app.js imports describeAnalysis from rag.js and         *)
(* fetchFileContent from analyzer.js (app.js:1-11); neither module exports  *)
(* such a binding, so that a call of either throws.                         *)

\* what analyzeRepository returns (analyzer.js:82-111): the repository, the
\* statistics and meta.analyzedFiles, the number of candidate files inspected
Analysis(name, branch, n) ==
    [has |-> TRUE,
     repo |-> [owner |-> "o", name |-> name, defaultBranch |-> branch],
     meta |-> [analyzedFiles |-> n]]

Analyses == { Analysis("r", "main", n) : n \in {0, MaxFiles} }
            \cup { Analysis("s", "dev", n) : n \in {0, MaxFiles} }

AnalysisResults == { [ok |-> FALSE] } \cup { [ok |-> TRUE, analysis |-> a] : a \in Analyses }

\* app.js:205: lastAnalysis.sampledFiles || []
sampledFiles(analysis) ==
    IF "sampledFiles" \in DOMAIN analysis THEN analysis.sampledFiles ELSE <<>>

\* app.js:186-190
ensureKey(analysis) ==
    IndexKey(analysis.repo.owner, analysis.repo.name, analysis.repo.defaultBranch)

\* app.js:191
heldIndexMatches(held, key) == held.has /\ held.index.key = key

\* an ensureRagIndex that rebuilds whatever loadIndex gave
isCacheHit_Never(loaded) == FALSE

\* app.js:194: if (ragIndex)
isCacheHit(loaded) == loaded.has

\* a generatePresetDiagrams without its try block
presetFailureContained_NoCatch == FALSE

\* app.js:219 and 241-244: what is thrown in generatePresetDiagrams is caught there
presetFailureContained == TRUE

\* app.js:216-245 and 60-69 from the point where generatePresetDiagrams ends:
\* failed says that something was thrown in it; pdfNow is pdfButton.disabled
PresetFinish(analysis, pdfNow, failed, cause) ==
    LET escapes == failed /\ ~presetFailureContained
    IN  /\ lastAnalysis' = IF escapes THEN NoAnalysis ELSE analysis
        /\ pdfButtonDisabled' = IF escapes THEN TRUE ELSE pdfNow
        /\ submitButtonDisabled' = FALSE
        /\ appPc' = "idle"
        /\ submitLog' = [done |-> TRUE, ok |-> TRUE, analysis |-> analysis,
                         contained |-> cause,
                         lastAnalysis |-> lastAnalysis',
                         pdfButtonDisabled |-> pdfButtonDisabled',
                         submitButtonDisabled |-> submitButtonDisabled',
                         exporting |-> pdfPc = "exporting"]

\* app.js:221-222: describeFeatures, then describeAnalysis(analysis), which
\* is not a function: the call throws and lines 223-240 are not reached
PresetAfterIndex(analysis, pdfNow) ==
    PresetFinish(analysis, pdfNow, TRUE, "describeAnalysis is not a function")

\* app.js:32-51: the submit handler up to await analyzeRepository(...)
SubmitStart ==
    /\ appPc = "idle"
    /\ ~submitButtonDisabled
    /\ submitButtonDisabled' = TRUE
    /\ pdfButtonDisabled' = TRUE
    /\ ragIndex' = NoIndex
    /\ appPc' = "analyzing"
    /\ UNCHANGED <<lastAnalysis, pdfPc, submitLog, ensureLog>>
    /\ UNCHANGED <<localStorageItems, ragPc, ragArgs, ragLocals, ragOutcome, provVars>>

\* app.js:51-69, 216-220 and 185-193 after await analyzeRepository(...):
\* a failed analysis goes to the catch and finally blocks; a completed one
\* is kept and generatePresetDiagrams runs up to await loadIndex(key)
SubmitAfterAnalysis(result) ==
    /\ appPc = "analyzing"
    /\ IF ~result.ok
       THEN /\ lastAnalysis' = NoAnalysis
            /\ pdfButtonDisabled' = TRUE
            /\ submitButtonDisabled' = FALSE
            /\ appPc' = "idle"
            /\ submitLog' = [done |-> TRUE, ok |-> FALSE,
                             submitButtonDisabled |-> FALSE]
            /\ UNCHANGED <<ensureLog, ragVars, provVars>>
       ELSE LET key == ensureKey(result.analysis)
            IN  IF heldIndexMatches(ragIndex, key)
                THEN /\ ensureLog' = [done |-> TRUE, key |-> key, via |-> "memory",
                                      index |-> ragIndex, storedBefore |-> localStorageItems]
                     /\ PresetAfterIndex(result.analysis, FALSE)
                     /\ UNCHANGED <<ragVars, provVars>>
                ELSE /\ lastAnalysis' = result.analysis
                     /\ pdfButtonDisabled' = FALSE
                     /\ submitLog' = [done |-> FALSE, analysis |-> result.analysis]
                     /\ ensureLog' = [done |-> FALSE, key |-> key,
                                      storedBefore |-> localStorageItems]
                     /\ LoadCall(key)
                     /\ appPc' = "awaitLoad"
                     /\ UNCHANGED submitButtonDisabled
    /\ UNCHANGED pdfPc

\* app.js:193-207 after await loadIndex(key): a cached index is returned,
\* otherwise buildRagIndex is called with the sampled files of lastAnalysis
EnsureAfterLoad ==
    /\ appPc = "awaitLoad"
    /\ IF isCacheHit(ragIndex)
       THEN /\ ensureLog' = [ensureLog EXCEPT !.done = TRUE] @@
                            [via |-> "cache", index |-> ragIndex]
            /\ PresetAfterIndex(lastAnalysis, pdfButtonDisabled)
            /\ UNCHANGED <<ragVars, provVars>>
       ELSE /\ BuildCallFor(ensureKey(lastAnalysis), sampledFiles(lastAnalysis))
            /\ appPc' = "building"
            /\ UNCHANGED <<lastAnalysis, submitButtonDisabled, pdfButtonDisabled,
                           submitLog, ensureLog>>
    /\ UNCHANGED pdfPc

\* app.js:200-209 and 220-245 after await buildRagIndex(...): the index is
\* kept, or the failure of the build is caught in generatePresetDiagrams
EnsureAfterBuild ==
    /\ appPc = "building"
    /\ ragPc = "idle"
    /\ IF ragOutcome.kind = "returned"
       THEN /\ ensureLog' = [ensureLog EXCEPT !.done = TRUE] @@
                            [via |-> "build", index |-> ragIndex]
            /\ PresetAfterIndex(lastAnalysis, pdfButtonDisabled)
       ELSE /\ ensureLog' = [ensureLog EXCEPT !.done = TRUE] @@
                            [via |-> "failed", index |-> NoIndex]
            /\ PresetFinish(lastAnalysis, pdfButtonDisabled, TRUE, ragOutcome.error)
    /\ UNCHANGED <<pdfPc, ragVars, provVars>>

\* app.js:72-78: the click handler up to await generateAnalysisPdf(...); a
\* disabled button gives no click
PdfClick ==
    /\ pdfPc = "idle"
    /\ ~pdfButtonDisabled
    /\ IF lastAnalysis.has
       THEN /\ pdfButtonDisabled' = TRUE
            /\ pdfPc' = "exporting"
       ELSE UNCHANGED <<pdfButtonDisabled, pdfPc>>
    /\ UNCHANGED <<lastAnalysis, submitButtonDisabled, appPc, submitLog, ensureLog>>
    /\ UNCHANGED <<ragVars, provVars>>

\* app.js:78-86 after await generateAnalysisPdf(...), resolved or rejected
PdfAfterExport ==
    /\ pdfPc = "exporting"
    /\ pdfButtonDisabled' = ~lastAnalysis.has
    /\ pdfPc' = "idle"
    /\ UNCHANGED <<lastAnalysis, submitButtonDisabled, appPc, submitLog, ensureLog>>
    /\ UNCHANGED <<ragVars, provVars>>

\* the markup of the page is not part of the sources: the PDF button starts
\* enabled or disabled
AppInit ==
    /\ ProvidersUnset
    /\ GenIdleInit
    /\ RankIdleInit
    /\ RagIdleInit
    /\ InspIdleInit
    /\ PipeIdleInit
    /\ lastAnalysis = NoAnalysis
    /\ submitButtonDisabled = FALSE
    /\ pdfButtonDisabled \in BOOLEAN
    /\ appPc = "idle"
    /\ pdfPc = "idle"
    /\ submitLog = NoLog
    /\ ensureLog = NoLog

\* the page with its user, who submits repositories and clicks the PDF
\* button, and a caller of retrieveContext that queries the index the page
\* holds between two analyses.  ensureRagIndex hands buildRagIndex no file,
\* so that no file is fetched and no chunk embedded.
AppNext ==
    \/ ragPc = "idle" /\ SubmitStart /\ UNCHANGED <<genVars, rankVars, inspVars, pipeVars>>
    \/ \E result \in AnalysisResults :
          SubmitAfterAnalysis(result) /\ UNCHANGED <<genVars, rankVars, inspVars, pipeVars>>
    \/ EnsureAfterLoad /\ UNCHANGED <<genVars, rankVars, inspVars, pipeVars>>
    \/ EnsureAfterBuild /\ UNCHANGED <<genVars, rankVars, inspVars, pipeVars>>
    \/ PdfClick /\ UNCHANGED <<genVars, rankVars, inspVars, pipeVars>>
    \/ PdfAfterExport /\ UNCHANGED <<genVars, rankVars, inspVars, pipeVars>>
    \/ \E ok \in BOOLEAN : EnvImportSettle(ok) /\ UNCHANGED <<extVars, genVars, rankVars, ragVars>>
    \/ \E ok \in BOOLEAN : EnvEmbPipelineSettle(ok) /\ UNCHANGED <<extVars, genVars, rankVars, ragVars>>
    \/ EmbAfterImport /\ UNCHANGED <<extVars, genVars, rankVars>>
    \/ \E writeOk \in BOOLEAN : EmbAfterPipeline(writeOk) /\ UNCHANGED <<extVars, genVars, rankVars>>
    \/ \E q \in Questions, k \in RagTopKs :
          appPc = "idle" /\ RetrieveCall(q, ragIndex, k)
          /\ UNCHANGED <<extVars, genVars, rankVars>>
    \/ \E ok \in BOOLEAN : RetrieveAfterEmbed(ok) /\ UNCHANGED <<extVars, genVars, rankVars>>

SpecApp == AppInit /\ [][AppNext]_vars


\* history: what localStorage gave for the key when the last ensureRagIndex began
EnsureLoaded == loadIndex(ensureLog.storedBefore, ensureLog.key)

EnsureBegan == "key" \in DOMAIN ensureLog

\* C24: ensureRagIndex rebuilds the index of a key only when loadIndex gave
\* nothing for it; an index that a build has persisted can be loaded again
\* under its key, so that every later ensureRagIndex for the key, also
\* after a submit has cleared ragIndex, returns the cached index and starts
\* no build; the index returned has the key of the current analysis
C24_IndexLifecycle ==
    /\ (EnsureBegan /\ (appPc = "building" \/ (ensureLog.done /\ ensureLog.via \in {"build", "failed"})))
       => ~EnsureLoaded.has
    /\ \A key \in AppKeys :
          localStorageItems[StorageKey(key)] # Absent
          => /\ loadIndex(localStorageItems, key).has
             /\ loadIndex(localStorageItems, key).index.key = key
    /\ (ensureLog.done /\ EnsureLoaded.has)
       => ensureLog.via = "cache" /\ ensureLog.index = EnsureLoaded
    /\ (ensureLog.done /\ ensureLog.via # "failed" /\ lastAnalysis.has)
       => ensureLog.index.has /\ ensureLog.index.index.key = ensureKey(lastAnalysis)

\* C24: the index of o/r@main comes from the cache after the page has also
\* built the index of a second repository
C24_Witness ==
    /\ ensureLog.done
    /\ ensureLog.via = "cache"
    /\ ensureLog.key = RepoKey
    /\ localStorageItems[StorageKey(OtherKey)] # Absent
    /\ appPc = "idle"

\* C25: on a cache miss the index is built from the files that the analysis
\* sampled: buildRagIndex is handed as many files as the analysis inspected
C25_IndexBuiltFromSampledFiles ==
    appPc = "building" => Len(ragArgs.supplied) = lastAnalysis.meta.analyzedFiles

\* C27: an index without chunks has dims 0 and is written to localStorage
\* like any other; a later ensureRagIndex for its key takes it as a cache
\* hit and does not rebuild; retrieveContext over it returns no entry for
\* every question and topK
C27_EmptyIndexIsCacheHit ==
    /\ (/\ ragArgs.op = "build"
        /\ ragPc = "idle"
        /\ ragOutcome.kind = "returned"
        /\ ragOutcome.op = "build"
        /\ ragOutcome.value.chunks = <<>>)
       => /\ ragOutcome.value.dims = 0
          /\ ragOutcome.wrote
             => localStorageItems[StorageKey(ragArgs.key)] = serializeIndex(ragOutcome.value)
    /\ (ensureLog.done /\ EnsureLoaded.has /\ EnsureLoaded.index.chunks = <<>>)
       => /\ ensureLog.via = "cache"
          /\ ensureLog.index.index.chunks = <<>>
          /\ appPc # "building"
    /\ (/\ ragArgs.op = "retrieve"
        /\ ragPc = "idle"
        /\ ragArgs.index.has
        /\ ragArgs.index.index.chunks = <<>>
        /\ ragOutcome.kind = "returned"
        /\ ragOutcome.op = "retrieve")
       => ragOutcome.value = <<>>

\* C27: a question is answered over an empty index that came from the cache
C27_Witness ==
    /\ ensureLog.done
    /\ ensureLog.via = "cache"
    /\ ensureLog.index.index.chunks = <<>>
    /\ ragArgs.op = "retrieve"
    /\ ragArgs.index = ensureLog.index
    /\ ragPc = "idle"
    /\ ragOutcome.kind = "returned"
    /\ ragOutcome.op = "retrieve"
    /\ ragOutcome.value = <<>>

----------------------------------------------------------------------------
(* inspectCodeFiles, analyzer.js:150-208: FETCH_CONCURRENCY workers that    *)
(* share one work queue.  A worker runs without interruption from one await *)
(* to the next; the environment decides the order in which the fetches      *)
(* settle and which of them fail.                                           *)

MaxInspectFiles == 5
MaxClasses == 2

InspectFile(i) == [path |-> i, extension |-> "js"]

InspectFileLists ==
    { [i \in 1..n |-> InspectFile(i)] : n \in 0..MaxInspectFiles }

\* countClasses(content, extension) of the content of a file, analyzer.js:467-481:
\* the content of a path is fixed, its number of classes is between 0 and MaxClasses
classesOf(path) == path % (MaxClasses + 1)

Workers == 1..FETCH_CONCURRENCY

\* a worker that counts the files with classes instead of the classes
totalAfterFile_CountsFiles(total, classes) == total + 1

\* analyzer.js:167
totalAfterFile(total, classes) == total + classes

\* analyzer.js:168-172
detailOf(file, classes) == [path |-> file.path, classes |-> classes, language |-> file.extension]

\* analyzer.js:158-164: the loop test, work.shift() and the call of
\* fetchFileContent: the position of the worker, the queue and the log after them
WorkerTake(w, queue, ws, log) ==
    IF queue = <<>>
    THEN [workers |-> [ws EXCEPT ![w] = [pc |-> "done"]], work |-> queue, fetchLog |-> log]
    ELSE [workers |-> [ws EXCEPT ![w] = [pc |-> "fetching", file |-> Head(queue)]],
          work |-> Tail(queue),
          fetchLog |-> Append(log, Head(queue).path)]

\* analyzer.js:157: Array.from runs the workers one after the other, each up to its first await
RECURSIVE StartWorkers(_, _)
StartWorkers(w, st) ==
    IF w > FETCH_CONCURRENCY THEN st
    ELSE StartWorkers(w + 1, WorkerTake(w, st.work, st.workers, st.fetchLog))

\* analyzer.js:150-204 up to await Promise.all(workers)
InspectCall(files) ==
    /\ \A w \in Workers : workers[w].pc = "unborn"
    /\ LET st == StartWorkers(1, [workers |-> workers, work |-> files, fetchLog |-> <<>>])
       IN  /\ workers' = st.workers
           /\ work' = st.work
           /\ fetchLog' = st.fetchLog
    /\ inspFiles' = files
    /\ classDetails' = <<>>
    /\ totalClasses' = 0
    /\ UNCHANGED inspOutcome

\* analyzer.js:164-199 after await fetchFileContent(...), and the next turn
\* of the loop (158-164); ok is whether the fetch resolved
WorkerAfterFetch(w, ok) ==
    /\ workers[w].pc = "fetching"
    /\ LET file == workers[w].file
           classes == classesOf(file.path)
           st == WorkerTake(w, work, workers, fetchLog)
       IN  /\ IF ok /\ classes > 0
              THEN /\ totalClasses' = totalAfterFile(totalClasses, classes)
                   /\ classDetails' = Append(classDetails, detailOf(file, classes))
              ELSE UNCHANGED <<totalClasses, classDetails>>
           /\ workers' = st.workers
           /\ work' = st.work
           /\ fetchLog' = st.fetchLog
    /\ UNCHANGED <<inspFiles, inspOutcome>>

\* Array.prototype.sort with (a, b) => b.classes - a.classes: stable, descending
RECURSIVE InsertByClasses(_, _)
InsertByClasses(sorted, d) ==
    IF sorted = <<>> THEN <<d>>
    ELSE IF Head(sorted).classes >= d.classes
         THEN <<Head(sorted)>> \o InsertByClasses(Tail(sorted), d)
         ELSE <<d>> \o sorted

RECURSIVE SortByClasses(_)
SortByClasses(details) ==
    IF details = <<>> THEN <<>>
    ELSE InsertByClasses(SortByClasses(SubSeq(details, 1, Len(details) - 1)),
                         details[Len(details)])

\* analyzer.js:201-207 after await Promise.all(workers)
InspectReturn ==
    /\ \A w \in Workers : workers[w].pc = "done"
    /\ ~inspOutcome.done
    /\ classDetails' = SortByClasses(classDetails)
    /\ inspOutcome' = [done |-> TRUE, totalClasses |-> totalClasses,
                       classDetails |-> SortByClasses(classDetails)]
    /\ UNCHANGED <<inspFiles, work, workers, totalClasses, fetchLog>>

InspectNext ==
    \/ \E files \in InspectFileLists :
          InspectCall(files) /\ UNCHANGED <<provVars, genVars, rankVars, ragVars, appVars, pipeVars>>
    \/ \E w \in Workers, ok \in BOOLEAN :
          WorkerAfterFetch(w, ok)
          /\ UNCHANGED <<provVars, genVars, rankVars, ragVars, appVars, pipeVars>>
    \/ InspectReturn /\ UNCHANGED <<provVars, genVars, rankVars, ragVars, appVars, pipeVars>>

SpecInspect == Init /\ [][InspectNext]_vars

\* every fetch settles, and the event loop runs the continuation of a
\* settled promise
SpecInspectFair ==
    /\ SpecInspect
    /\ WF_vars(\E w \in Workers, ok \in BOOLEAN :
                  WorkerAfterFetch(w, ok)
                  /\ UNCHANGED <<provVars, genVars, rankVars, ragVars, appVars, pipeVars>>)
    /\ WF_vars(InspectReturn /\ UNCHANGED <<provVars, genVars, rankVars, ragVars, appVars, pipeVars>>)

InspectCalled == \E w \in Workers : workers[w].pc # "unborn"

RECURSIVE SumClasses(_)
SumClasses(details) ==
    IF details = <<>> THEN 0 ELSE Head(details).classes + SumClasses(Tail(details))

InFlight == { w \in Workers : workers[w].pc = "fetching" }

\* the candidate files are taken from the queue in order, each once, and no
\* more than FETCH_CONCURRENCY fetches are out; when inspectCodeFiles has
\* returned every file has been fetched
InspectSafe ==
    /\ Cardinality(InFlight) <= FETCH_CONCURRENCY
    /\ InspectCalled
       => /\ fetchLog \o [i \in 1..Len(work) |-> work[i].path]
             = [i \in 1..Len(inspFiles) |-> inspFiles[i].path]
          /\ \A i, j \in 1..Len(fetchLog) : fetchLog[i] = fetchLog[j] => i = j
          /\ \A v, w \in InFlight : workers[v].file = workers[w].file => v = w
          /\ totalClasses = SumClasses(classDetails)
          /\ \A i, j \in 1..Len(classDetails) :
                classDetails[i].path = classDetails[j].path => i = j
    /\ inspOutcome.done
       => /\ work = <<>>
          /\ InFlight = {}
          /\ Len(fetchLog) = Len(inspFiles)
          /\ inspOutcome.totalClasses = SumClasses(inspOutcome.classDetails)

\* C30: inspectCodeFiles fetches every candidate file exactly once under
\* every order in which the fetches of its workers settle, has at most
\* FETCH_CONCURRENCY fetches in flight, reports totalClasses equal to the sum
\* of the classes fields of classDetails, and returns once it has been
\* called, also when fetches fail
C30_WorkersShareQueue ==
    /\ []InspectSafe
    /\ InspectCalled ~> inspOutcome.done

\* C30: more files than workers, a failed fetch among them (fewer details
\* than files with classes), and inspectCodeFiles has returned
C30_Witness ==
    /\ inspOutcome.done
    /\ Len(inspFiles) > FETCH_CONCURRENCY
    /\ Len(inspOutcome.classDetails) >= 2
    /\ Len(inspOutcome.classDetails)
       < Cardinality({ i \in 1..Len(inspFiles) : classesOf(inspFiles[i].path) > 0 })
    /\ inspOutcome.totalClasses > 0

============================================================================
